---- MODULE Spec2Model ----
(***************************************************************************)
(* Stream ingestion pipeline: StreamBuffer (bounded per-stream frame       *)
(* FIFO), StreamRouter (admissions), StreamProcessor (concurrency-limited  *)
(* coordinator) and StreamIngestionService (facade).                       *)
(*                                                                         *)
(* A frame is identified by its push number within its stream (1, 2, ...). *)
(* Every operation is an operator from a state record to a state record,   *)
(* so that the synchronous chains of the code (an operation emits an       *)
(* event, the subscribed handler runs before the operation returns) are    *)
(* composed exactly as the code composes them.                             *)
(***************************************************************************)
EXTENDS Integers, Sequences, FiniteSets, Bags, TLC

\* ---------------------------------------------------------------- bounds
\* a StreamBuffer on its own: capacities 1..MaxCapacity, at most MaxPush pushes
\* per stream, getFrames counts 1..MaxCount
MaxCapacity == 4
MaxPush == 5
MaxCount == 2
\* a StreamBuffer on its own, queried between operations: pushes per stream
MaxQueryPush == 3
\* the ingestion service: buffer capacity, concurrency ceiling, pushes in all,
\* frames per stream description, pending wake-ups and retry timers tracked
ServiceBufferSize == 1
MaxConcurrent == 1
MaxServicePush == 2
MaxFrames == 1
MaxWakeups == 1
\* the ingestion service offered every kind of description: pushes in all
MaxAdmissionPush == 1
MaxRoutePriority == 5    \* the largest priority given to routeToAI
\* the ingestion service fed frame by frame: buffer capacity, frames per
\* stream (below the capacity)
IngestBufferSize == 4
MaxIngestFrames == 3
\* the ingestion service at that capacity with its passes running: pushes in all
MaxPipelinePush == 2
\* the ingestion service with a raising subscriber: pushes in all, retry
\* timers pending at a time
MaxRetryPush == 3
MaxRetryTimers == 1
\* the ingestion service, two streams, every operation recorded: pushes in all
MaxIsolationPush == 3
\* the ingestion service stopped and started, its pass starts recorded: pushes in all
MaxSchedulePush == 3
MaxEscalationPush == 3
\* the ingestion service with its pending callbacks counted: callbacks told
\* apart, pushes in all
MaxPolls == 3
MaxPollPush == 2

Streams == {"s1", "s2"}
StreamIds == <<"s1", "s2">>    \* the streamIds in the order generateStreamId returns them
ConnectionIds == <<"c1", "c2">>    \* the connectionIds in the order generateConnectionId returns them
Connections == {"c1", "c2"}
Users == {"u1", "u2"}
BufferSizes == 1..MaxCapacity

VARIABLES
  maxBufferSize,   \* StreamBuffer.maxBufferSize (constructor argument)
  buffers,         \* StreamBuffer.buffers: streamId -> sequence of frames
  pushed,          \* per stream, the number of addFrame calls made so far
  lastReturned,    \* per stream, the frame most recently returned by getNextFrame/getFrames (0: none)
  events,          \* the observed events emitted by the last operation, in order
  ret,             \* the last operation: its name, its streamId, the value it returned
  routerQueue,     \* StreamRouter.processingQueue: streamId -> priority, in insertion order
  activeRoutes,    \* StreamRouter.activeRoutes
  processingQueue, \* StreamProcessor.processingQueue: the jobs, in insertion order
  activeProcessing,     \* StreamProcessor.activeProcessing
  maxConcurrentStreams, \* StreamProcessor.maxConcurrentStreams (constructor argument)
  processingMetrics,    \* StreamProcessor.processingMetrics: the streamIds that have an entry
  isProcessing,    \* StreamProcessor.isProcessing
  passes,          \* bag of the processNextBatch/processStream calls suspended at an await
  wakeups,         \* pending processNextBatch callbacks (setTimeout 10ms, setImmediate)
  maxWakeups,      \* the number of pending callbacks told apart: more are counted as this many
  retryTimers,     \* bag of the pending retry timers of handleProcessingError
  detachedJobs,    \* the job objects held by a retry timer and not in the queue
  lastEnhanced,    \* per stream, the last frame of the most recent frames:enhanced (0: none)
  activeStreams,   \* StreamIngestionService.activeStreams: streamId -> description
  userSessions,    \* StreamIngestionService.userSessions: userId -> streamId
  description,     \* <<d>>: the stream description d the last call was given; <<>>: none kept
  handed,          \* per stream, the frames given to processBatch so far, in order
  webrtcServer,    \* WebRTCServer: connections (the connectionIds) and streamSessions
                   \* (streamId -> connectionId, in insertion order)
  generated,       \* the numbers of ids generateStreamId and generateConnectionId have returned
  started,         \* the passes the last operation started, in order: the stream, and the
                   \* queue, the active set and the non-empty buffers processNextBatch found
  resumed          \* the timer callback or continuation of a pass that ran last: its kind,
                   \* its stream, and a bit that alternates from one to the next

bufVars == <<maxBufferSize, buffers, pushed, lastReturned, events, ret>>
svcVars == <<routerQueue, activeRoutes, processingQueue, activeProcessing,
             maxConcurrentStreams, processingMetrics, isProcessing, passes,
             wakeups, maxWakeups, retryTimers, detachedJobs, lastEnhanced, activeStreams,
             userSessions>>
vars == <<svcVars, description, handed, webrtcServer, generated, started, resumed, bufVars>>

\* ---------------------------------------------------------------- helpers
Min(a, b) == IF a < b THEN a ELSE b
Max(a, b) == IF a > b THEN a ELSE b

\* new Map()
EmptyMap == [x \in {} |-> 0]

\* Map.delete(k)
MapDelete(m, k) == [x \in (DOMAIN m) \ {k} |-> m[x]]

\* Map.set(k, v)
MapSet(m, k, v) == [x \in (DOMAIN m) \cup {k} |-> IF x = k THEN v ELSE m[x]]

\* Array.prototype.splice(0, n): <<removed, rest>>
SpliceFront(a, n) ==
  LET k == Min(n, Len(a))
  IN  <<SubSeq(a, 1, k), SubSeq(a, k + 1, Len(a))>>

Event(type, streamId, n) == [type |-> type, streamId |-> streamId, n |-> n]

\* EventEmitter.emit, as far as the record of emitted events goes
Emit(st, type, streamId, n) ==
  [st EXCEPT !.events = Append(@, Event(type, streamId, n))]

\* The state as one record
St ==
  [ maxBufferSize |-> maxBufferSize,
    buffers |-> buffers,
    pushed |-> pushed,
    lastReturned |-> lastReturned,
    events |-> <<>>,
    ret |-> "void",
    routerQueue |-> routerQueue,
    activeRoutes |-> activeRoutes,
    processingQueue |-> processingQueue,
    activeProcessing |-> activeProcessing,
    maxConcurrentStreams |-> maxConcurrentStreams,
    processingMetrics |-> processingMetrics,
    isProcessing |-> isProcessing,
    passes |-> passes,
    wakeups |-> wakeups,
    maxWakeups |-> maxWakeups,
    retryTimers |-> retryTimers,
    detachedJobs |-> detachedJobs,
    lastEnhanced |-> lastEnhanced,
    activeStreams |-> activeStreams,
    userSessions |-> userSessions,
    handed |-> handed,
    webrtcServer |-> webrtcServer,
    generated |-> generated,
    started |-> <<>> ]

\* The next state is st, with the trace of the operation (events, ret) and
\* the description it was called with; resumed is left to the caller
CommitState(st, d) ==
  /\ maxBufferSize' = st.maxBufferSize
  /\ buffers' = st.buffers
  /\ pushed' = st.pushed
  /\ lastReturned' = st.lastReturned
  /\ events' = st.events
  /\ ret' = st.ret
  /\ routerQueue' = st.routerQueue
  /\ activeRoutes' = st.activeRoutes
  /\ processingQueue' = st.processingQueue
  /\ activeProcessing' = st.activeProcessing
  /\ maxConcurrentStreams' = st.maxConcurrentStreams
  /\ processingMetrics' = st.processingMetrics
  /\ isProcessing' = st.isProcessing
  /\ passes' = st.passes
  /\ wakeups' = st.wakeups
  /\ maxWakeups' = st.maxWakeups
  /\ retryTimers' = st.retryTimers
  /\ detachedJobs' = st.detachedJobs
  /\ lastEnhanced' = st.lastEnhanced
  /\ activeStreams' = st.activeStreams
  /\ userSessions' = st.userSessions
  /\ handed' = st.handed
  /\ webrtcServer' = st.webrtcServer
  /\ generated' = st.generated
  /\ started' = st.started
  /\ description' = d

CommitCall(st, d) == CommitState(st, d) /\ UNCHANGED resumed

\* The next state is st, with the trace of the operation (events, ret)
CommitAll(st) == CommitCall(st, <<>>)

NoTrace == [op |-> "none", streamId |-> "", value |-> "void"]

\* The state st without the trace of the operation that led to it
Core(st) == [st EXCEPT !.events = <<>>, !.ret = NoTrace, !.started = <<>>]

\* st as left by operation op on stream s, st.ret being the value returned
Returned(op, s, st) == [st EXCEPT !.ret = [op |-> op, streamId |-> s, value |-> st.ret]]

\* The next state is st; the trace of the operation is not kept
Commit(st) == CommitAll(Core(st))

\* ---------------------------------------------------------------- StreamBuffer
\* the low-water mark rounded up instead of down
lowWaterMark_ceil(st) == (3 * st.maxBufferSize + 9) \div 10

lowWaterMark(st) == (3 * st.maxBufferSize) \div 10
\* the high-water mark rounded up instead of down
highWaterMark_ceil(st) == (8 * st.maxBufferSize + 9) \div 10

highWaterMark(st) == (8 * st.maxBufferSize) \div 10

\* getBufferSize that reports a full buffer for a stream that has none
getBufferSize_noDefault(st, s) ==
  IF s \in DOMAIN st.buffers THEN Len(st.buffers[s]) ELSE st.maxBufferSize

getBufferSize(st, s) == IF s \in DOMAIN st.buffers THEN Len(st.buffers[s]) ELSE 0
isEmpty(st, s) == getBufferSize(st, s) = 0
isFull(st, s) == getBufferSize(st, s) >= st.maxBufferSize

\* handleOverflow: drops the oldest floor(0.3 * maxBufferSize) frames
handleOverflow(st, s) ==
  LET framesToRemove == (3 * st.maxBufferSize) \div 10
      sp == SpliceFront(st.buffers[s], framesToRemove)
      st1 == [st EXCEPT !.buffers[s] = sp[2]]
  IN  Emit(st1, "buffer:overflow", s, Len(sp[1]))

\* addFrame without its overflow branch
addFrame_unchecked(st, s) ==
  LET frame == st.pushed[s] + 1
      st0 == [st EXCEPT !.pushed[s] = frame,
                        !.buffers = IF s \in DOMAIN @ THEN @ ELSE MapSet(@, s, <<>>)]
      st1 == [st0 EXCEPT !.buffers[s] = Append(@, frame)]
  IN  [Emit(st1, "frame:added", s, Len(st1.buffers[s])) EXCEPT !.ret = TRUE]

\* addFrame, up to and including its emits; the frame pushed is number pushed[s] + 1
addFrame(st, s) ==
  LET frame == st.pushed[s] + 1
      st0 == [st EXCEPT !.pushed[s] = frame,
                        !.buffers = IF s \in DOMAIN @ THEN @ ELSE MapSet(@, s, <<>>)]
  IN  IF Len(st0.buffers[s]) >= st0.maxBufferSize
      THEN [handleOverflow(st0, s) EXCEPT !.ret = FALSE]
      ELSE LET st1 == [st0 EXCEPT !.buffers[s] = Append(@, frame)]
               st2 == IF Len(st1.buffers[s]) = highWaterMark(st1)
                      THEN Emit(st1, "buffer:high_water", s, Len(st1.buffers[s]))
                      ELSE st1
           IN  [Emit(st2, "frame:added", s, Len(st2.buffers[s])) EXCEPT !.ret = TRUE]

\* getNextFrame with pop() for shift()
getNextFrame_lifo(st, s) ==
  IF s \notin DOMAIN st.buffers \/ Len(st.buffers[s]) = 0
  THEN [st EXCEPT !.ret = <<>>]
  ELSE LET frame == st.buffers[s][Len(st.buffers[s])]
           st1 == [st EXCEPT !.buffers[s] = SubSeq(@, 1, Len(@) - 1),
                             !.lastReturned[s] = frame]
       IN  [Emit(st1, "frame:retrieved", s, Len(st1.buffers[s])) EXCEPT !.ret = <<frame>>]

\* getNextFrame: ret is <<frame>> or <<>> (null)
getNextFrame(st, s) ==
  IF s \notin DOMAIN st.buffers \/ Len(st.buffers[s]) = 0
  THEN [st EXCEPT !.ret = <<>>]
  ELSE LET frame == Head(st.buffers[s])
           st1 == [st EXCEPT !.buffers[s] = Tail(@),
                             !.lastReturned[s] = frame]
           st2 == IF Len(st1.buffers[s]) = lowWaterMark(st1)
                  THEN Emit(st1, "buffer:low_water", s, Len(st1.buffers[s]))
                  ELSE st1
       IN  [Emit(st2, "frame:retrieved", s, Len(st2.buffers[s])) EXCEPT !.ret = <<frame>>]

\* getFrames with slice for splice: the frames returned stay in the buffer
getFrames_peek(st, s, count) ==
  IF s \notin DOMAIN st.buffers \/ Len(st.buffers[s]) = 0
  THEN [st EXCEPT !.ret = <<>>]
  ELSE LET sp == SpliceFront(st.buffers[s], count)
           st1 == [st EXCEPT !.lastReturned[s] = sp[1][Len(sp[1])]]
       IN  [Emit(st1, "frames:retrieved", s, Len(sp[1])) EXCEPT !.ret = sp[1]]

\* getFrames: ret is the sequence of frames removed
getFrames(st, s, count) ==
  IF s \notin DOMAIN st.buffers \/ Len(st.buffers[s]) = 0
  THEN [st EXCEPT !.ret = <<>>]
  ELSE LET sp == SpliceFront(st.buffers[s], count)
           st1 == [st EXCEPT !.buffers[s] = sp[2],
                             !.lastReturned[s] = sp[1][Len(sp[1])]]
       IN  [Emit(st1, "frames:retrieved", s, Len(sp[1])) EXCEPT !.ret = sp[1]]

clearBuffer(st, s) ==
  IF s \in DOMAIN st.buffers
  THEN Emit([st EXCEPT !.buffers[s] = <<>>, !.ret = "void"],
            "buffer:cleared", s, Len(st.buffers[s]))
  ELSE [st EXCEPT !.ret = "void"]

\* removeStream dropping every buffer instead of the one of s
removeStream_everyBuffer(st, s) ==
  IF s \in DOMAIN st.buffers
  THEN Emit([st EXCEPT !.buffers = << >>, !.ret = "void"],
            "buffer:removed", s, Len(st.buffers[s]))
  ELSE [st EXCEPT !.ret = "void"]

removeStream(st, s) ==
  IF s \in DOMAIN st.buffers
  THEN Emit([st EXCEPT !.buffers = MapDelete(@, s), !.ret = "void"],
            "buffer:removed", s, Len(st.buffers[s]))
  ELSE [st EXCEPT !.ret = "void"]

\* ---------------------------------------------------------------- insertion-ordered maps
\* A JavaScript Map whose iteration order matters is a sequence of entries
\* keyed by streamId: set() on a present key keeps its position, set() on an
\* absent key appends, delete() closes the gap.
KeyIndex(q, s) ==
  IF \E i \in 1..Len(q) : q[i].streamId = s
  THEN CHOOSE i \in 1..Len(q) : q[i].streamId = s
  ELSE 0

HasKey(q, s) == KeyIndex(q, s) # 0

Keys(q) == {q[i].streamId : i \in 1..Len(q)}

SeqDelete(q, s) ==
  LET i == KeyIndex(q, s)
  IN  IF i = 0 THEN q ELSE SubSeq(q, 1, i - 1) \o SubSeq(q, i + 1, Len(q))

SeqSet(q, s, e) ==
  LET i == KeyIndex(q, s)
  IN  IF i = 0 THEN Append(q, e) ELSE [q EXCEPT ![i] = e]

\* ---------------------------------------------------------------- StreamProcessor
batchSize == 5
MaxPriority == 10
MaxRetries == 3

\* A ProcessingJob object.  queuedAt and frameCount are written once and never
\* read.  obj is the identity of the object while a retry timer holds a
\* reference to it (0: no timer does): the timer re-inserts the very object
\* that handleProcessingError found in the queue, whatever happened to it since.
Job(s, priority) == [streamId |-> s, priority |-> priority, retryCount |-> 0, obj |-> 0]

TimerObjs(st) == {t.obj : t \in BagToSet(st.retryTimers)}

\* a job object leaves the queue: a referenced one lives on in its timers
detach(st, job) ==
  IF job.obj # 0 THEN [st EXCEPT !.detachedJobs = @ \cup {job}] ELSE st

\* processingQueue.delete(s)
dequeue(st, s) ==
  LET i == KeyIndex(st.processingQueue, s)
  IN  IF i = 0 THEN st
      ELSE [detach(st, st.processingQueue[i]) EXCEPT !.processingQueue = SeqDelete(@, s)]

\* processingQueue.clear()
clearQueue(st) ==
  [st EXCEPT !.detachedJobs =
               @ \cup {st.processingQueue[i] : i \in {j \in 1..Len(st.processingQueue) :
                                                       st.processingQueue[j].obj # 0}},
             !.processingQueue = <<>>]

\* getNextProcessingJob: the scan of the queue from entry i on, best so far in
\* (selected, highestPriority); returns the index of the selected job, or 0
\* the scan keeping the last job of the highest priority instead of the first
RECURSIVE scanJobs_lastWins(_, _, _, _)
scanJobs_lastWins(st, i, selected, highestPriority) ==
  IF i > Len(st.processingQueue) THEN selected
  ELSE LET job == st.processingQueue[i]
       IN  IF job.streamId \in st.activeProcessing
           THEN scanJobs_lastWins(st, i + 1, selected, highestPriority)
           ELSE IF isEmpty(st, job.streamId)
           THEN scanJobs_lastWins(st, i + 1, selected, highestPriority)
           ELSE IF job.priority >= highestPriority
           THEN scanJobs_lastWins(st, i + 1, i, job.priority)
           ELSE scanJobs_lastWins(st, i + 1, selected, highestPriority)

RECURSIVE scanJobs(_, _, _, _)
scanJobs(st, i, selected, highestPriority) ==
  IF i > Len(st.processingQueue) THEN selected
  ELSE LET job == st.processingQueue[i]
       IN  IF job.streamId \in st.activeProcessing THEN scanJobs(st, i + 1, selected, highestPriority)
           ELSE IF isEmpty(st, job.streamId) THEN scanJobs(st, i + 1, selected, highestPriority)
           ELSE IF job.priority > highestPriority THEN scanJobs(st, i + 1, i, job.priority)
           ELSE scanJobs(st, i + 1, selected, highestPriority)

getNextProcessingJob(st) ==
  IF Len(st.processingQueue) = 0 THEN 0 ELSE scanJobs(st, 1, 0, -1)

\* setTimeout(() => this.processNextBatch(), 10) and setImmediate(() =>
\* this.processNextBatch()); pending callbacks beyond maxWakeups are not told apart
scheduleWakeup(st) == [st EXCEPT !.wakeups = Min(@ + 1, st.maxWakeups)]

\* handleProcessingError
handleProcessingError(st, s) ==
  LET i == KeyIndex(st.processingQueue, s)
  IN  IF i # 0 /\ st.processingQueue[i].retryCount < MaxRetries
      THEN LET job == st.processingQueue[i]
               retryCount == job.retryCount + 1
               delay == (2 ^ retryCount) * 1000
               obj == IF job.obj # 0 THEN job.obj
                      ELSE CHOOSE k \in 1..(BagCardinality(st.retryTimers) + 1) :
                             /\ k \notin TimerObjs(st)
                             /\ \A m \in 1..(k - 1) : m \in TimerObjs(st)
               st1 == [st EXCEPT !.processingQueue[i].retryCount = retryCount,
                                 !.processingQueue[i].obj = obj,
                                 !.retryTimers = @ (+) SetToBag({[streamId |-> s, obj |-> obj,
                                                                  delay |-> delay]})]
           IN  Emit(st1, "processing:retry", s, retryCount)
      ELSE Emit(st, "processing:failed", s,
                IF i # 0 THEN st.processingQueue[i].retryCount ELSE 0)

\* processBatch up to its await: the batch is with the enhancement function
processBatchBegin(st, s, frames, errors, removed) ==
  LET st1 == Emit(st, "ai:processing", s, Len(frames))
  IN  [st1 EXCEPT !.handed[s] = @ \o frames,
                  !.passes = @ (+) SetToBag({[streamId |-> s, pc |-> "enhance",
                                               batch |-> frames, errors |-> errors,
                                               removed |-> removed]})]

\* the end of a pass: the finally block of processStream, then the catch and
\* finally blocks of processNextBatch.  threw: a subscriber of
\* processing:completed raised, so that processStream rejects.
\* the end of a pass without the setImmediate of processNextBatch
passEnd_noWakeup(st, s, errors, threw) ==
  LET st1 == [st EXCEPT !.processingMetrics = @ \cup {s}]
      st2 == Emit(st1, "processing:completed", s, errors)
      st3 == IF threw THEN handleProcessingError(st2, s) ELSE st2
  IN  [st3 EXCEPT !.activeProcessing = @ \ {s}]

passEnd(st, s, errors, threw) ==
  LET st1 == [st EXCEPT !.processingMetrics = @ \cup {s}]
      st2 == Emit(st1, "processing:completed", s, errors)
      st3 == IF threw THEN handleProcessingError(st2, s) ELSE st2
      st4 == [st3 EXCEPT !.activeProcessing = @ \ {s}]
  IN  scheduleWakeup(st4)

\* processStream from the head of its while loop to the next await
\* removed: the service was asked to disconnect s since the pass began (the
\* code keeps no such flag; the model does where it has to tell this pass from
\* a later one)
passLoop(st, s, errors, threw, removed) ==
  IF ~st.isProcessing THEN passEnd(st, s, errors, threw)
  ELSE LET st1 == getFrames(st, s, batchSize)
           frames == st1.ret
       IN  IF Len(frames) = 0 THEN passEnd(st1, s, errors, threw)
           ELSE processBatchBegin(st1, s, frames, errors, removed)

processStream(st, s) ==
  passLoop(Emit(st, "processing:started", s, 0), s, 0, FALSE, FALSE)

\* processNextBatch without the test of the ceiling
processNextBatch_noCeiling(st) ==
  IF ~st.isProcessing
  THEN st
  ELSE LET i == getNextProcessingJob(st)
       IN  IF i = 0 THEN scheduleWakeup(st)
           ELSE LET s == st.processingQueue[i].streamId
                    st1 == [st EXCEPT !.activeProcessing = @ \cup {s}]
                    st2 == dequeue(st1, s)
                    st3 == [st2 EXCEPT !.started =
                              Append(@, [streamId |-> s,
                                         queue |-> st.processingQueue,
                                         active |-> st.activeProcessing,
                                         nonEmpty |-> {t \in DOMAIN st.buffers : ~isEmpty(st, t)},
                                         left |-> st2.processingQueue])]
                IN  processStream(st3, s)

processNextBatch(st) ==
  IF ~st.isProcessing \/ Cardinality(st.activeProcessing) >= st.maxConcurrentStreams
  THEN st
  ELSE LET i == getNextProcessingJob(st)
       IN  IF i = 0 THEN scheduleWakeup(st)
           ELSE LET s == st.processingQueue[i].streamId
                    st1 == [st EXCEPT !.activeProcessing = @ \cup {s}]
                    st2 == dequeue(st1, s)
                    st3 == [st2 EXCEPT !.started =
                              Append(@, [streamId |-> s,
                                         queue |-> st.processingQueue,
                                         active |-> st.activeProcessing,
                                         nonEmpty |-> {t \in DOMAIN st.buffers : ~isEmpty(st, t)},
                                         left |-> st2.processingQueue])]
                IN  processStream(st3, s)

start(st) ==
  IF st.isProcessing THEN st
  ELSE Emit(processNextBatch([st EXCEPT !.isProcessing = TRUE]), "processor:started", "", 0)

stop(st) ==
  Emit(clearQueue([st EXCEPT !.isProcessing = FALSE, !.activeProcessing = {}]),
       "processor:stopped", "", 0)

\* addStreamToQueue that gives a queued job the new priority
addStreamToQueue_overwrite(st, s, priority) ==
  LET i == KeyIndex(st.processingQueue, s)
  IN  IF i # 0
      THEN [st EXCEPT !.processingQueue[i].priority = priority]
      ELSE LET st1 == [st EXCEPT !.processingQueue = Append(@, Job(s, priority))]
               st2 == Emit(st1, "queue:added", s, Len(st1.processingQueue))
           IN  IF st2.isProcessing /\ Cardinality(st2.activeProcessing) < st2.maxConcurrentStreams
               THEN processNextBatch(st2)
               ELSE st2

addStreamToQueue(st, s, priority) ==
  LET i == KeyIndex(st.processingQueue, s)
  IN  IF i # 0
      THEN [st EXCEPT !.processingQueue[i].priority = Max(@, priority)]
      ELSE LET st1 == [st EXCEPT !.processingQueue = Append(@, Job(s, priority))]
               st2 == Emit(st1, "queue:added", s, Len(st1.processingQueue))
           IN  IF st2.isProcessing /\ Cardinality(st2.activeProcessing) < st2.maxConcurrentStreams
               THEN processNextBatch(st2)
               ELSE st2

\* removeStreamFromQueue without activeProcessing.delete
removeStreamFromQueue_keepsActive(st, s) ==
  LET st1 == [dequeue(st, s) EXCEPT !.processingMetrics = @ \ {s}]
  IN  Emit(st1, "queue:removed", s, Len(st1.processingQueue))

removeStreamFromQueue(st, s) ==
  LET st1 == [dequeue(st, s) EXCEPT !.activeProcessing = @ \ {s},
                                    !.processingMetrics = @ \ {s}]
  IN  Emit(st1, "queue:removed", s, Len(st1.processingQueue))

\* the callback of a retry timer: processingQueue.set(streamId, job), then
\* processNextBatch()
retryCallback(st, t) ==
  LET st0 == [st EXCEPT !.retryTimers = @ (-) SetToBag({t})]
      obj == IF t.obj \in TimerObjs(st0) THEN t.obj ELSE 0
      i == KeyIndex(st0.processingQueue, t.streamId)
  IN  IF i # 0 /\ st0.processingQueue[i].obj = t.obj
      THEN processNextBatch([st0 EXCEPT !.processingQueue[i].obj = obj])
      ELSE LET job == CHOOSE j \in st0.detachedJobs : j.obj = t.obj
               st1 == IF i # 0 THEN detach(st0, st0.processingQueue[i]) ELSE st0
               st2 == [st1 EXCEPT !.detachedJobs = @ \ {job},
                                  !.processingQueue =
                                     SeqSet(@, t.streamId, [job EXCEPT !.obj = obj])]
           IN  processNextBatch(st2)

\* setupEventHandlers: the four subscriptions of the coordinator
onFrameAdded(st, s) ==
  IF ~HasKey(st.processingQueue, s) /\ s \notin st.activeProcessing
  THEN addStreamToQueue(st, s, 1)
  ELSE st

onBufferOverflow(st, s) ==
  LET i == KeyIndex(st.processingQueue, s)
  IN  IF i # 0
      THEN [st EXCEPT !.processingQueue[i].priority = Min(@ + 1, MaxPriority)]
      ELSE st

onRouteAdded(st, s, priority) == addStreamToQueue(st, s, priority)

onRouteRemoved(st, s) == removeStreamFromQueue(st, s)

\* ---------------------------------------------------------------- StreamRouter
\* (as wired by the ingestion service: the coordinator subscribes to
\* route:added and route:removed)
\* the scan of getNextStreamForProcessing with >= for >: the last stream met
\* wins a tie
RECURSIVE scanRoutes_lastWins(_, _, _, _)
scanRoutes_lastWins(q, i, nextStreamId, highestPriority) ==
  IF i > Len(q) THEN nextStreamId
  ELSE IF q[i].priority >= highestPriority
       THEN scanRoutes_lastWins(q, i + 1, q[i].streamId, q[i].priority)
       ELSE scanRoutes_lastWins(q, i + 1, nextStreamId, highestPriority)

RECURSIVE scanRoutes(_, _, _, _)
scanRoutes(q, i, nextStreamId, highestPriority) ==
  IF i > Len(q) THEN nextStreamId
  ELSE IF q[i].priority > highestPriority
       THEN scanRoutes(q, i + 1, q[i].streamId, q[i].priority)
       ELSE scanRoutes(q, i + 1, nextStreamId, highestPriority)

\* getNextStreamForProcessing: a streamId, or "" for null
getNextStreamForProcessing(st) ==
  IF Len(st.routerQueue) = 0 THEN "" ELSE scanRoutes(st.routerQueue, 1, "", -1)

processQueue(st) ==
  LET nextStreamId == getNextStreamForProcessing(st)
  IN  IF nextStreamId # "" THEN Emit(st, "processing:next", nextStreamId, 0) ELSE st

routeToAI(st, s, priority) ==
  LET st1 == [st EXCEPT !.routerQueue = SeqSet(@, s, [streamId |-> s, priority |-> priority]),
                        !.activeRoutes = @ \cup {s}]
      st2 == Emit(st1, "route:added", s, priority)
  IN  processQueue(onRouteAdded(st2, s, priority))

\* removeRoute that drops the oldest admission instead of the one of s
removeRoute_shift(st, s) ==
  LET st1 == IF Len(st.routerQueue) = 0 THEN st
             ELSE [st EXCEPT !.routerQueue = Tail(@),
                             !.activeRoutes = @ \ {Head(st.routerQueue).streamId}]
  IN  onRouteRemoved(Emit(st1, "route:removed", s, 0), s)

removeRoute(st, s) ==
  LET st1 == [st EXCEPT !.routerQueue = SeqDelete(@, s),
                        !.activeRoutes = @ \ {s}]
  IN  onRouteRemoved(Emit(st1, "route:removed", s, 0), s)

isRouted(st, s) == s \in st.activeRoutes

\* ---------------------------------------------------------------- StreamIngestionService
\* A stream description: streamId and userId ("" when missing), the
\* configuration and the number of frames it carries.
Config(width, height, frameRate, bitrate) ==
  [present |-> TRUE, hasResolution |-> TRUE, width |-> width, height |-> height,
   frameRate |-> frameRate, bitrate |-> bitrate]

\* a configuration object without its resolution property
ConfigNoResolution(frameRate, bitrate) ==
  [present |-> TRUE, hasResolution |-> FALSE, width |-> 0, height |-> 0,
   frameRate |-> frameRate, bitrate |-> bitrate]

\* a description without its config property
NoConfig ==
  [present |-> FALSE, hasResolution |-> FALSE, width |-> 0, height |-> 0,
   frameRate |-> 0, bitrate |-> 0]

Description(s, u, config, frames) ==
  [streamId |-> s, userId |-> u, config |-> config, frames |-> frames]

\* the outcome of a call that may raise: a raised Error is the sequence of the
\* parts its message is made of
Throw(parts) == [threw |-> TRUE, error |-> parts]

Returns == [threw |-> FALSE, error |-> <<>>]

\* validateStream reads config.resolution.width for the high-resolution
\* warning whenever config is present: without a resolution that read raises
validateStreamRaises(stream) == stream.config.present /\ ~stream.config.hasResolution

validateStream(stream) ==
  LET e1 == IF stream.streamId = "" THEN <<"Stream ID is required">> ELSE <<>>
      e2 == IF stream.userId = "" THEN <<"User ID is required">> ELSE <<>>
      e3 == IF ~stream.config.present THEN <<"Stream configuration is required">>
            ELSE (IF ~stream.config.hasResolution
                     \/ stream.config.width <= 0 \/ stream.config.height <= 0
                  THEN <<"Valid resolution is required">> ELSE <<>>)
              \o (IF stream.config.frameRate <= 0 \/ stream.config.frameRate > 120
                  THEN <<"Frame rate must be between 1 and 120 fps">> ELSE <<>>)
              \o (IF stream.config.bitrate <= 0
                  THEN <<"Bitrate must be positive">> ELSE <<>>)
      w1 == IF stream.config.present
               /\ (stream.config.width > 1920 \/ stream.config.height > 1080)
            THEN <<"High resolution may impact processing performance">> ELSE <<>>
      w2 == IF stream.frames = 0 THEN <<"No video frames present in stream">> ELSE <<>>
      errors == e1 \o e2 \o e3
  IN  IF validateStreamRaises(stream)
      THEN [threw |-> TRUE, isValid |-> FALSE, errors |-> <<"TypeError">>, warnings |-> <<>>]
      ELSE [threw |-> FALSE, isValid |-> Len(errors) = 0, errors |-> errors,
            warnings |-> w1 \o w2]

\* setupDefaultRoutingRules, in registration order
RuleNames == <<"valid_stream", "has_frames", "supported_resolution">>

Rule(name, stream) ==
  CASE name = "valid_stream" ->
         stream.streamId # "" /\ stream.userId # "" /\ stream.config.present
    [] name = "has_frames" -> stream.frames > 0
    [] name = "supported_resolution" ->
         /\ stream.config.width >= 320 /\ stream.config.height >= 240
         /\ stream.config.width <= 3840 /\ stream.config.height <= 2160

\* the rule raises: supported_resolution destructures config.resolution
RuleRaises(name, stream) ==
  name = "supported_resolution" /\ (~stream.config.present \/ ~stream.config.hasResolution)

\* the rules run to the end: the index of the last rule that returns false
\* or raises, or 0
RECURSIVE firstFailingRule_last(_, _)
firstFailingRule_last(stream, i) ==
  IF i > Len(RuleNames) THEN 0
  ELSE LET later == firstFailingRule_last(stream, i + 1)
       IN  IF later # 0 THEN later
           ELSE IF RuleRaises(RuleNames[i], stream) \/ ~Rule(RuleNames[i], stream) THEN i
           ELSE 0

\* shouldRoute: the index of the first rule that returns false or raises, or 0
RECURSIVE firstFailingRule(_, _)
firstFailingRule(stream, i) ==
  IF i > Len(RuleNames) THEN 0
  ELSE IF RuleRaises(RuleNames[i], stream) \/ ~Rule(RuleNames[i], stream) THEN i
  ELSE firstFailingRule(stream, i + 1)

\* shouldRoute: ret is the boolean returned; n of the event is the index of
\* the rule it names
shouldRoute(st, stream) ==
  LET failed == firstFailingRule(stream, 1)
  IN  IF failed = 0 THEN [st EXCEPT !.ret = TRUE]
      ELSE IF RuleRaises(RuleNames[failed], stream)
      THEN [Emit(st, "rule:error", stream.streamId, failed) EXCEPT !.ret = FALSE]
      ELSE [Emit(st, "rule:failed", stream.streamId, failed) EXCEPT !.ret = FALSE]

\* addFrame with the coordinator's frame:added and buffer:overflow handlers
addFrameToBuffer(st, s) ==
  LET st1 == addFrame(st, s)
      st2 == IF st1.ret THEN onFrameAdded(st1, s) ELSE onBufferOverflow(st1, s)
  IN  [st2 EXCEPT !.ret = st1.ret]

\* the passes in flight, those of stream s recorded as passes whose stream was
\* removed meanwhile
Removed(bag, s) ==
  LET mark(p) == IF p.streamId = s THEN [p EXCEPT !.removed = TRUE] ELSE p
      marked == {mark(p) : p \in BagToSet(bag)}
  IN  [q \in marked |->
         IF q.streamId = s
         THEN CopiesIn(q, bag) + CopiesIn([q EXCEPT !.removed = FALSE], bag)
         ELSE CopiesIn(q, bag)]

\* handleDisconnection that leaves the registry and the user session alone
handleDisconnection_keepsEntry(st, s) ==
  LET st2 == removeStream(st, s)
      st3 == removeRoute(st2, s)
      st4 == removeStreamFromQueue(st3, s)
  IN  [Emit(st4, "stream:disconnected", s, 0) EXCEPT !.ret = "void"]

handleDisconnection(st, s) ==
  LET st1 == IF s \in DOMAIN st.activeStreams
             THEN [st EXCEPT !.userSessions = MapDelete(@, st.activeStreams[s].userId),
                             !.activeStreams = MapDelete(@, s)]
             ELSE st
      st2 == removeStream(st1, s)
      st3 == removeRoute(st2, s)
      st4 == removeStreamFromQueue(st3, s)
  IN  [Emit(st4, "stream:disconnected", s, 0) EXCEPT !.ret = "void"]

RECURSIVE addFrames(_, _, _)
addFrames(st, s, n) ==
  IF n = 0 THEN st ELSE addFrames(addFrameToBuffer(st, s), s, n - 1)

\* addVideoStream without the teardown of the user's existing stream
addVideoStream_keepsOld(st, stream) ==
  LET validation == validateStream(stream)
  IN
  IF validation.threw THEN [st EXCEPT !.ret = Throw(validation.errors)]
  ELSE IF ~validation.isValid
  THEN [st EXCEPT !.ret = Throw(<<"Invalid stream">> \o validation.errors)]
  ELSE LET st2 == [st EXCEPT !.activeStreams = MapSet(@, stream.streamId, stream),
                             !.userSessions = MapSet(@, stream.userId, stream.streamId)]
           st3 == addFrames(st2, stream.streamId, stream.frames)
       IN  [Emit(st3, "stream:added", stream.streamId, 0) EXCEPT !.ret = Returns]

addVideoStream(st, stream) ==
  LET validation == validateStream(stream)
  IN
  IF validation.threw THEN [st EXCEPT !.ret = Throw(validation.errors)]
  ELSE IF ~validation.isValid
  THEN [st EXCEPT !.ret = Throw(<<"Invalid stream">> \o validation.errors)]
  ELSE LET st1 == IF stream.userId \in DOMAIN st.userSessions
                  THEN handleDisconnection(st, st.userSessions[stream.userId])
                  ELSE st
           st2 == [st1 EXCEPT !.activeStreams = MapSet(@, stream.streamId, stream),
                              !.userSessions = MapSet(@, stream.userId, stream.streamId)]
           st3 == addFrames(st2, stream.streamId, stream.frames)
       IN  [Emit(st3, "stream:added", stream.streamId, 0) EXCEPT !.ret = Returns]

getActiveStreamCount(st) == Cardinality(DOMAIN st.activeStreams)

\* ---------------------------------------------------------------- WebRTCServer
\* (as wired by the ingestion service, which subscribes to
\* connection:established and connection:closed).  An event of a connection
\* carries the connectionId in n and the streamId, "" for undefined.
associateStream(st, s, c) ==
  LET st1 == [st EXCEPT !.webrtcServer.streamSessions =
                           SeqSet(@, s, [streamId |-> s, connectionId |-> c])]
  IN  Emit(st1, "stream:associated", s, c)

\* generateStreamId: an id never returned before
generateStreamId(st) == StreamIds[st.generated.streams + 1]

\* acceptStream: ret is the streamId
acceptStream(st, c) ==
  LET streamId == generateStreamId(st)
      st1 == associateStream([st EXCEPT !.generated.streams = @ + 1], streamId, c)
  IN  [Emit(st1, "stream:accepted", streamId, c) EXCEPT !.ret = streamId]

onConnectionEstablished(st, c) ==
  LET st1 == acceptStream(st, c)
  IN  Emit(st1, "stream:ready", st1.ret, c)

onConnectionClosed(st, streamId) ==
  IF streamId # "" THEN handleDisconnection(st, streamId) ELSE st

\* generateConnectionId: an id never returned before
generateConnectionId(st) == ConnectionIds[st.generated.connections + 1]

\* handleConnectionRequest: ret is the connectionId of the connection returned
handleConnectionRequest(st) ==
  LET c == generateConnectionId(st)
  IN  Emit([st EXCEPT !.generated.connections = @ + 1,
                      !.webrtcServer.connections = @ \cup {c}, !.ret = c],
           "connection:new", "", c)

handleOffer(st, c) ==
  IF c \notin st.webrtcServer.connections
  THEN [st EXCEPT !.ret = Throw(<<"Connection ", c, " not found">>)]
  ELSE [onConnectionEstablished(Emit(st, "connection:established", "", c), c)
          EXCEPT !.ret = Returns]

\* the streamId of the first entry of streamSessions that has connectionId c,
\* "" for undefined
findStream(sessions, c) ==
  IF \E i \in 1..Len(sessions) : sessions[i].connectionId = c
  THEN sessions[CHOOSE i \in 1..Len(sessions) :
                  /\ sessions[i].connectionId = c
                  /\ \A j \in 1..(i - 1) : sessions[j].connectionId # c].streamId
  ELSE ""

closeConnection(st, c) ==
  IF c \notin st.webrtcServer.connections
  THEN [st EXCEPT !.ret = "void"]
  ELSE LET streamId == findStream(st.webrtcServer.streamSessions, c)
           st1 == [st EXCEPT !.webrtcServer.connections = @ \ {c},
                             !.webrtcServer.streamSessions = SeqDelete(@, streamId)]
           st2 == Emit(st1, "connection:closed", streamId, c)
       IN  [onConnectionClosed(st2, streamId) EXCEPT !.ret = "void"]

\* the Error raised inside the try block is caught, reported with
\* stream:error and raised again
routeToProcessor(st, s) ==
  IF s \notin DOMAIN st.activeStreams
  THEN [st EXCEPT !.ret = Throw(<<"Stream ", s, " not found">>)]
  ELSE LET st0 == shouldRoute(st, st.activeStreams[s])
       IN  IF ~st0.ret
           THEN [Emit(st0, "stream:error", s, 0)
                   EXCEPT !.ret = Throw(<<"Stream ", s, " failed routing rules">>)]
           ELSE LET st1 == routeToAI(st0, s, 1)
                    st2 == addStreamToQueue(st1, s, 1)
                IN  [Emit(st2, "stream:route", s, 0) EXCEPT !.ret = Returns]

\* ---------------------------------------------------------------- the ingestion service
RECURSIVE SumOver(_, _)
SumOver(f, S) ==
  IF S = {} THEN 0
  ELSE LET x == CHOOSE y \in S : TRUE IN f[x] + SumOver(f, S \ {x})

\* the stream descriptions offered to the service: well-formed, routable,
\* every stream with its own user
Owner(s) == IF s = "s1" THEN "u1" ELSE "u2"

ServiceDescriptions ==
  { Description(s, Owner(s), Config(640, 480, 30, 1000), n) : s \in Streams, n \in 1..MaxFrames }

\* new StreamIngestionService(webrtcServer, bufferSize): the constructor ends
\* with streamProcessor.start(), whose processNextBatch finds no job and
\* arms the first 10ms poll
Init ==
  /\ maxBufferSize = ServiceBufferSize
  /\ buffers = EmptyMap
  /\ pushed = [s \in Streams |-> 0]
  /\ lastReturned = [s \in Streams |-> 0]
  /\ events = <<>>
  /\ ret = NoTrace
  /\ routerQueue = <<>>
  /\ activeRoutes = {}
  /\ processingQueue = <<>>
  /\ activeProcessing = {}
  /\ maxConcurrentStreams = MaxConcurrent
  /\ processingMetrics = {}
  /\ isProcessing = TRUE
  /\ passes = EmptyBag
  /\ wakeups = 1
  /\ maxWakeups = MaxWakeups
  /\ retryTimers = EmptyBag
  /\ detachedJobs = {}
  /\ lastEnhanced = [s \in Streams |-> 0]
  /\ activeStreams = EmptyMap
  /\ userSessions = EmptyMap
  /\ description = <<>>
  /\ handed = [s \in Streams |-> <<>>]
  /\ webrtcServer = [connections |-> {}, streamSessions |-> <<>>]
  /\ generated = [streams |-> 0, connections |-> 0]
  /\ started = <<>>
  /\ resumed = [kind |-> "none", streamId |-> "", bit |-> 0]

AddVideoStream(stream, budget) ==
  /\ SumOver(pushed, Streams) + stream.frames <= budget
  /\ Commit(addVideoStream(St, stream))

AddFrameToBuffer(s, budget) ==
  /\ SumOver(pushed, Streams) < budget
  /\ Commit(addFrameToBuffer(St, s))

RouteToProcessor(s) == Commit(routeToProcessor(St, s))

HandleDisconnection(s) == Commit(handleDisconnection(St, s))

Stop ==
  /\ isProcessing
  /\ Commit(stop(St))

Start ==
  /\ ~isProcessing
  /\ Commit(start(St))

\* a pending processNextBatch callback runs
Wakeup ==
  /\ wakeups > 0
  /\ Commit(processNextBatch([St EXCEPT !.wakeups = @ - 1]))

\* a retry timer fires
RetryFire(t) ==
  /\ BagIn(t, retryTimers)
  /\ Commit(retryCallback(St, t))

\* the enhancement of a batch returns (ok) or fails: processBatch from its
\* await on, then processStream up to the 1ms pause
batchDone(st, p, ok) ==
  LET st0 == [st EXCEPT !.passes = @ (-) SetToBag({p})]
      st1 == IF ok
             THEN Emit(Emit([st0 EXCEPT !.lastEnhanced[p.streamId] = p.batch[Len(p.batch)]],
                            "frames:enhanced", p.streamId, p.batch),
                       "batch:processed", p.streamId, Len(p.batch))
             ELSE Emit(st0, "batch:error", p.streamId, Len(p.batch))
      q == [p EXCEPT !.pc = "pause", !.batch = <<>>, !.errors = IF ok THEN @ ELSE @ + 1]
  IN  [st1 EXCEPT !.passes = @ (+) SetToBag({q})]

BatchDone(p, ok) ==
  /\ BagIn(p, passes)
  /\ p.pc = "enhance"
  /\ Commit(batchDone(St, p, ok))

\* the 1ms pause of a pass ends: the next turn of the while loop
pauseDone(st, p, threw) ==
  passLoop([st EXCEPT !.passes = @ (-) SetToBag({p})], p.streamId, p.errors, threw, p.removed)

PassEnds(p) == ~isProcessing \/ isEmpty(St, p.streamId)

PauseDone(p, threw) ==
  /\ BagIn(p, passes)
  /\ p.pc = "pause"
  /\ threw => PassEnds(p) /\ BagCardinality(retryTimers) < MaxRetryTimers
  /\ Commit(pauseDone(St, p, threw))

\* the service as the repository wires it: no subscriber raises
Next ==
  \/ \E stream \in ServiceDescriptions : AddVideoStream(stream, MaxServicePush)
  \/ \E s \in Streams : AddFrameToBuffer(s, MaxServicePush)
  \/ \E s \in Streams : RouteToProcessor(s)
  \/ \E s \in Streams : HandleDisconnection(s)
  \/ Stop
  \/ Start
  \/ Wakeup
  \/ \E p \in BagToSet(passes), ok \in BOOLEAN : BatchDone(p, ok)
  \/ \E p \in BagToSet(passes) : PauseDone(p, FALSE)

Spec == Init /\ [][Next]_vars

\* The same service with the callbacks and continuations that the event loop
\* runs told apart from the calls of the environment: each of them leaves its
\* kind and stream in resumed.
Resume(kind, s) == [kind |-> kind, streamId |-> s, bit |-> 1 - resumed.bit]

PrgWakeup ==
  /\ wakeups > 0
  /\ CommitState(Core(processNextBatch([St EXCEPT !.wakeups = @ - 1])), <<>>)
  /\ resumed' = Resume("wakeup", "")

\* the enhancement call returns (a failed one differs in the error count only)
PrgBatchDone(p) ==
  /\ BagIn(p, passes)
  /\ p.pc = "enhance"
  /\ CommitState(Core(batchDone(St, p, TRUE)), <<>>)
  /\ resumed' = Resume("batch", p.streamId)

PrgPauseDone(p) ==
  /\ BagIn(p, passes)
  /\ p.pc = "pause"
  /\ CommitState(Core(pauseDone(St, p, FALSE)), <<>>)
  /\ resumed' = Resume("pause", p.streamId)

NextProgress ==
  \/ \E stream \in ServiceDescriptions : AddVideoStream(stream, MaxServicePush)
  \/ \E s \in Streams : AddFrameToBuffer(s, MaxServicePush)
  \/ \E s \in Streams : HandleDisconnection(s)
  \/ Stop
  \/ Start
  \/ PrgWakeup
  \/ \E p \in BagToSet(passes) : PrgBatchDone(p)
  \/ \E p \in BagToSet(passes) : PrgPauseDone(p)

\* A pass of stream s is suspended in processBatch, in the 1ms pause
InBatch(s) == \E p \in BagToSet(passes) : p.streamId = s /\ p.pc = "enhance"
InPause(s) == \E p \in BagToSet(passes) : p.streamId = s /\ p.pc = "pause"

\* Timers fire, each enhancement call returns and each 1ms pause elapses: a
\* pending processNextBatch callback runs (a step is a PrgWakeup step exactly
\* when it leaves "wakeup" in resumed, and PrgWakeup is enabled exactly when
\* a callback is pending), and a suspended pass is resumed (likewise).
SpecProgress ==
  /\ Init /\ [][NextProgress]_vars
  /\ WF_resumed(wakeups > 0 /\ resumed' = Resume("wakeup", ""))
  /\ \A s \in Streams :
       /\ WF_resumed(InBatch(s) /\ resumed' = Resume("batch", s))
       /\ WF_resumed(InPause(s) /\ resumed' = Resume("pause", s))

\* the service with a subscriber of processing:completed that may raise; one
\* stream
RetryStreams == {"s1"}

NextRetry ==
  \/ \E stream \in ServiceDescriptions :
       stream.streamId \in RetryStreams /\ AddVideoStream(stream, MaxRetryPush)
  \/ \E s \in RetryStreams : AddFrameToBuffer(s, MaxRetryPush)
  \/ \E s \in RetryStreams : RouteToProcessor(s)
  \/ \E s \in RetryStreams : HandleDisconnection(s)
  \/ Stop
  \/ Start
  \/ Wakeup
  \/ \E t \in BagToSet(retryTimers) : RetryFire(t)
  \/ \E p \in BagToSet(passes), ok \in BOOLEAN : BatchDone(p, ok)
  \/ \E p \in BagToSet(passes), threw \in BOOLEAN : PauseDone(p, threw)

SpecRetry == Init /\ [][NextRetry]_vars

\* ---------------------------------------------------------------- the service, any description
\* the configurations offered: routable, valid but below the smallest routed
\* resolution, invalid (width 0), without resolution, and none at all
AdmissionConfigs ==
  { Config(640, 480, 30, 1000), Config(160, 120, 30, 1000), Config(0, 480, 30, 1000),
    ConfigNoResolution(30, 1000), NoConfig }

AdmissionDescriptions ==
  { Description(s, u, c, n) : s \in Streams, u \in Users, c \in AdmissionConfigs,
                              n \in 0..MaxFrames }

\* a streamId is assigned to one stream (acceptStream, generateStreamId): while
\* it is registered it is not offered again under another user
AdmAddVideoStream(stream) ==
  /\ SumOver(pushed, Streams) + stream.frames <= MaxAdmissionPush
  /\ stream.streamId \in DOMAIN activeStreams
       => activeStreams[stream.streamId].userId = stream.userId
  /\ CommitCall(Returned("addVideoStream", stream.streamId, addVideoStream(St, stream)),
                <<stream>>)

AdmRouteToProcessor(s) ==
  CommitAll(Returned("routeToProcessor", s, routeToProcessor(St, s)))

AdmHandleDisconnection(s) ==
  CommitAll(Returned("handleDisconnection", s, handleDisconnection(St, s)))

NextAdmission ==
  \/ \E stream \in AdmissionDescriptions : AdmAddVideoStream(stream)
  \/ \E s \in Streams : AdmRouteToProcessor(s)
  \/ \E s \in Streams : AdmHandleDisconnection(s)
  \/ Wakeup
  \/ \E p \in BagToSet(passes) : BatchDone(p, TRUE)
  \/ \E p \in BagToSet(passes) : PauseDone(p, FALSE)

SpecAdmission == Init /\ [][NextAdmission]_vars

\* ---------------------------------------------------------------- the router of the service
\* The operations of the StreamRouter that the service owns, the coordinator
\* subscribed to route:added and route:removed; no stream has a buffer.
RoutePriorities == 0..MaxRoutePriority

RtRouteToAI(s, priority) ==
  CommitAll(Returned("routeToAI", s, routeToAI(St, s, priority)))

RtRemoveRoute(s) ==
  CommitAll(Returned("removeRoute", s, removeRoute(St, s)))

RtGetNextStreamForProcessing ==
  CommitAll(Returned("getNextStreamForProcessing", "",
                     [St EXCEPT !.ret = getNextStreamForProcessing(St)]))

NextRouter ==
  \/ \E s \in Streams, priority \in RoutePriorities : RtRouteToAI(s, priority)
  \/ \E s \in Streams : RtRemoveRoute(s)
  \/ RtGetNextStreamForProcessing
  \/ Wakeup

SpecRouter == Init /\ [][NextRouter]_vars

\* ---------------------------------------------------------------- validateStream and shouldRoute
\* The two functions of a stream description, applied to descriptions around
\* every limit they test. "" is a streamId or userId that is missing or blank.
Widths == {-1, 0, 1, 319, 320, 1920, 1921, 3840, 3841}
Heights == {-1, 0, 1, 239, 240, 1080, 1081, 2160, 2161}
FrameRates == {0, 1, 120, 121}
Bitrates == {0, 1}

FunctionConfigs ==
  {NoConfig}
  \cup {ConfigNoResolution(f, b) : f \in FrameRates, b \in Bitrates}
  \cup {Config(w, h, f, b) : w \in Widths, h \in Heights, f \in FrameRates, b \in Bitrates}

FunctionInputs ==
  {Description(s, u, c, n) : s \in {"", "s1"}, u \in {"", "u1"},
                             c \in FunctionConfigs, n \in 0..MaxFrames}

InitFunctions ==
  /\ maxBufferSize = ServiceBufferSize
  /\ buffers = EmptyMap
  /\ pushed = [s \in Streams |-> 0]
  /\ lastReturned = [s \in Streams |-> 0]
  /\ events = <<>>
  /\ ret = NoTrace
  /\ routerQueue = <<>>
  /\ activeRoutes = {}
  /\ processingQueue = <<>>
  /\ activeProcessing = {}
  /\ maxConcurrentStreams = MaxConcurrent
  /\ processingMetrics = {}
  /\ isProcessing = TRUE
  /\ passes = EmptyBag
  /\ wakeups = 1
  /\ maxWakeups = MaxWakeups
  /\ retryTimers = EmptyBag
  /\ detachedJobs = {}
  /\ lastEnhanced = [s \in Streams |-> 0]
  /\ activeStreams = EmptyMap
  /\ userSessions = EmptyMap
  /\ description \in {<<d>> : d \in FunctionInputs}
  /\ handed = [s \in Streams |-> <<>>]
  /\ webrtcServer = [connections |-> {}, streamSessions |-> <<>>]
  /\ generated = [streams |-> 0, connections |-> 0]
  /\ started = <<>>
  /\ resumed = [kind |-> "none", streamId |-> "", bit |-> 0]

FnValidateStream ==
  CommitCall(Returned("validateStream", description[1].streamId,
                      [St EXCEPT !.ret = validateStream(description[1])]),
             description)

FnShouldRoute ==
  CommitCall(Returned("shouldRoute", description[1].streamId,
                      shouldRoute(St, description[1])),
             description)

NextFunctions ==
  \/ FnValidateStream
  \/ FnShouldRoute

SpecFunctions == InitFunctions /\ [][NextFunctions]_vars

\* ---------------------------------------------------------------- the service fed frame by frame
\* A caller that adds a stream carrying one frame, adds further frames one
\* by one and reads the buffered frame count, all in one turn of the event
\* loop: no timer callback and no continuation of a pass runs in between.
InitIngest ==
  /\ maxBufferSize = IngestBufferSize
  /\ buffers = EmptyMap
  /\ pushed = [s \in Streams |-> 0]
  /\ lastReturned = [s \in Streams |-> 0]
  /\ events = <<>>
  /\ ret = NoTrace
  /\ routerQueue = <<>>
  /\ activeRoutes = {}
  /\ processingQueue = <<>>
  /\ activeProcessing = {}
  /\ maxConcurrentStreams = MaxConcurrent
  /\ processingMetrics = {}
  /\ isProcessing = TRUE
  /\ passes = EmptyBag
  /\ wakeups = 1
  /\ maxWakeups = MaxWakeups
  /\ retryTimers = EmptyBag
  /\ detachedJobs = {}
  /\ lastEnhanced = [s \in Streams |-> 0]
  /\ activeStreams = EmptyMap
  /\ userSessions = EmptyMap
  /\ description = <<>>
  /\ handed = [s \in Streams |-> <<>>]
  /\ webrtcServer = [connections |-> {}, streamSessions |-> <<>>]
  /\ generated = [streams |-> 0, connections |-> 0]
  /\ started = <<>>
  /\ resumed = [kind |-> "none", streamId |-> "", bit |-> 0]

getBufferedFrameCount(st, s) == [st EXCEPT !.ret = getBufferSize(st, s)]

IngAddVideoStream(s) ==
  /\ pushed[s] = 0
  /\ CommitAll(Returned("addVideoStream", s,
                        addVideoStream(St, Description(s, Owner(s), Config(640, 480, 30, 1000), 1))))

IngAddFrameToBuffer(s) ==
  /\ s \in DOMAIN activeStreams
  /\ pushed[s] < MaxIngestFrames
  /\ CommitAll(Returned("addFrameToBuffer", s, addFrameToBuffer(St, s)))

IngGetBufferedFrameCount(s) ==
  CommitAll(Returned("getBufferedFrameCount", s, getBufferedFrameCount(St, s)))

IngHandleDisconnection(s) ==
  CommitAll(Returned("handleDisconnection", s, handleDisconnection(St, s)))

NextIngest ==
  \E s \in Streams :
    \/ IngAddVideoStream(s)
    \/ IngAddFrameToBuffer(s)
    \/ IngGetBufferedFrameCount(s)
    \/ IngHandleDisconnection(s)

SpecIngest == InitIngest /\ [][NextIngest]_vars

\* ---------------------------------------------------------------- the service and its passes
\* The service at a capacity that lets a batch hold several frames, with
\* pushes, teardowns, stop and start interleaved with the steps of the passes.
NextPipeline ==
  \/ \E stream \in ServiceDescriptions : AddVideoStream(stream, MaxPipelinePush)
  \/ \E s \in Streams : AddFrameToBuffer(s, MaxPipelinePush)
  \/ \E s \in Streams : HandleDisconnection(s)
  \/ Stop
  \/ Start
  \/ Wakeup
  \/ \E p \in BagToSet(passes), ok \in BOOLEAN : BatchDone(p, ok)
  \/ \E p \in BagToSet(passes) : PauseDone(p, FALSE)

SpecPipeline == InitIngest /\ [][NextPipeline]_vars

\* ---------------------------------------------------------------- the transport and the service
\* Clients connect, negotiate (an offer may be handled more than once on a
\* connection), add the stream they were given an id for, and close.
ConnHandleConnectionRequest ==
  /\ generated.connections < Len(ConnectionIds)
  /\ CommitAll(Returned("handleConnectionRequest", "", handleConnectionRequest(St)))

ConnHandleOffer(c) ==
  /\ c \in webrtcServer.connections
  /\ generated.streams < Len(StreamIds)
  /\ CommitAll(Returned("handleOffer", c, handleOffer(St, c)))

ConnAddVideoStream(stream) ==
  /\ HasKey(webrtcServer.streamSessions, stream.streamId)
  /\ stream.streamId \notin DOMAIN activeStreams
  /\ pushed[stream.streamId] = 0
  /\ CommitAll(Returned("addVideoStream", stream.streamId, addVideoStream(St, stream)))

ConnCloseConnection(c) ==
  CommitAll(Returned("closeConnection", c, closeConnection(St, c)))

NextConnection ==
  \/ ConnHandleConnectionRequest
  \/ \E c \in Connections : ConnHandleOffer(c)
  \/ \E stream \in ServiceDescriptions : ConnAddVideoStream(stream)
  \/ \E c \in Connections : ConnCloseConnection(c)

SpecConnection == Init /\ [][NextConnection]_vars

\* ---------------------------------------------------------------- the service, each step recorded
\* The service with two streams and a subscriber of processing:completed
\* that may raise; every step records the operation and the stream it is
\* made on.
IsoAddVideoStream(stream) ==
  /\ SumOver(pushed, Streams) + stream.frames <= MaxIsolationPush
  /\ CommitAll(Returned("addVideoStream", stream.streamId, addVideoStream(St, stream)))

IsoAddFrameToBuffer(s) ==
  /\ SumOver(pushed, Streams) < MaxIsolationPush
  /\ CommitAll(Returned("addFrameToBuffer", s, addFrameToBuffer(St, s)))

IsoGetNextFrame(s) == CommitAll(Returned("getNextFrame", s, getNextFrame(St, s)))

\* the passes of s in flight at the call are recorded as passes whose stream
\* was removed
IsoHandleDisconnection(s) ==
  CommitAll(Returned("handleDisconnection", s,
                     handleDisconnection([St EXCEPT !.passes = Removed(@, s)], s)))

IsoWakeup ==
  /\ wakeups > 0
  /\ CommitAll(Returned("processNextBatch", "", processNextBatch([St EXCEPT !.wakeups = @ - 1])))

IsoRetryFire(t) ==
  /\ BagIn(t, retryTimers)
  /\ CommitAll(Returned("retryCallback", t.streamId, retryCallback(St, t)))

\* the batches succeed here: what fails is the pass, after its last batch
IsoBatchDone(p) ==
  /\ BagIn(p, passes)
  /\ p.pc = "enhance"
  /\ CommitAll(Returned("processBatch", p.streamId, batchDone(St, p, TRUE)))

IsoPauseDone(p, threw) ==
  /\ BagIn(p, passes)
  /\ p.pc = "pause"
  /\ threw => PassEnds(p) /\ BagCardinality(retryTimers) < MaxRetryTimers
  /\ CommitAll(Returned("processStream", p.streamId, pauseDone(St, p, threw)))

NextIsolation ==
  \/ \E stream \in ServiceDescriptions : IsoAddVideoStream(stream)
  \/ \E s \in Streams : IsoAddFrameToBuffer(s)
  \/ \E s \in Streams : IsoGetNextFrame(s)
  \/ \E s \in Streams : IsoHandleDisconnection(s)
  \/ IsoWakeup
  \/ \E t \in BagToSet(retryTimers) : IsoRetryFire(t)
  \/ \E p \in BagToSet(passes) : IsoBatchDone(p)
  \/ \E p \in BagToSet(passes), threw \in BOOLEAN : IsoPauseDone(p, threw)

SpecIsolation == Init /\ [][NextIsolation]_vars

\* ---------------------------------------------------------------- the scheduler, each step recorded
\* The service with streams registered once and pushed to, the coordinator
\* stopped and started, the passes running; every step records the passes it
\* started.
SchAddVideoStream(stream) ==
  /\ stream.streamId \notin DOMAIN activeStreams
  /\ SumOver(pushed, Streams) + stream.frames <= MaxSchedulePush
  /\ CommitAll(Returned("addVideoStream", stream.streamId, addVideoStream(St, stream)))

SchAddFrameToBuffer(s) ==
  /\ s \in DOMAIN activeStreams
  /\ SumOver(pushed, Streams) < MaxSchedulePush
  /\ CommitAll(Returned("addFrameToBuffer", s, addFrameToBuffer(St, s)))

SchStop ==
  /\ isProcessing
  /\ CommitAll(Returned("stop", "", stop(St)))

SchStart ==
  /\ ~isProcessing
  /\ CommitAll(Returned("start", "", start(St)))

SchWakeup ==
  /\ wakeups > 0
  /\ CommitAll(Returned("processNextBatch", "", processNextBatch([St EXCEPT !.wakeups = @ - 1])))

SchBatchDone(p) ==
  /\ BagIn(p, passes)
  /\ p.pc = "enhance"
  /\ CommitAll(Returned("processBatch", p.streamId, batchDone(St, p, TRUE)))

SchPauseDone(p) ==
  /\ BagIn(p, passes)
  /\ p.pc = "pause"
  /\ CommitAll(Returned("processStream", p.streamId, pauseDone(St, p, FALSE)))

NextSchedule ==
  \/ \E stream \in ServiceDescriptions : SchAddVideoStream(stream)
  \/ \E s \in Streams : SchAddFrameToBuffer(s)
  \/ SchStop
  \/ SchStart
  \/ SchWakeup
  \/ \E p \in BagToSet(passes) : SchBatchDone(p)
  \/ \E p \in BagToSet(passes) : SchPauseDone(p)

SpecSchedule == Init /\ [][NextSchedule]_vars

\* ---------------------------------------------------------------- the coordinator and its overflow signal
\* The router and the buffer of the service with the coordinator subscribed to
\* both: routeToAI(streamId, priority) takes any number as priority, frames are
\* pushed while the job waits or runs.
EscalationPriorities == {MaxPriority - 1, MaxPriority + 1}

EscRouteToAI(s, priority) ==
  CommitAll(Returned("routeToAI", s, routeToAI(St, s, priority)))

EscAddFrameToBuffer(s) ==
  /\ SumOver(pushed, Streams) < MaxEscalationPush
  /\ CommitAll(Returned("addFrameToBuffer", s, addFrameToBuffer(St, s)))

NextEscalation ==
  \/ \E s \in Streams, priority \in EscalationPriorities : EscRouteToAI(s, priority)
  \/ \E s \in Streams : EscAddFrameToBuffer(s)
  \/ SchWakeup
  \/ \E p \in BagToSet(passes) : SchBatchDone(p)
  \/ \E p \in BagToSet(passes) : SchPauseDone(p)

SpecEscalation == Init /\ [][NextEscalation]_vars

\* ---------------------------------------------------------------- the service, its callbacks counted
\* the state after construction, up to MaxPolls pending callbacks told apart
InitPolling ==
  /\ maxBufferSize = ServiceBufferSize
  /\ buffers = EmptyMap
  /\ pushed = [s \in Streams |-> 0]
  /\ lastReturned = [s \in Streams |-> 0]
  /\ events = <<>>
  /\ ret = NoTrace
  /\ routerQueue = <<>>
  /\ activeRoutes = {}
  /\ processingQueue = <<>>
  /\ activeProcessing = {}
  /\ maxConcurrentStreams = MaxConcurrent
  /\ processingMetrics = {}
  /\ isProcessing = TRUE
  /\ passes = EmptyBag
  /\ wakeups = 1
  /\ maxWakeups = MaxPolls
  /\ retryTimers = EmptyBag
  /\ detachedJobs = {}
  /\ lastEnhanced = [s \in Streams |-> 0]
  /\ activeStreams = EmptyMap
  /\ userSessions = EmptyMap
  /\ description = <<>>
  /\ handed = [s \in Streams |-> <<>>]
  /\ webrtcServer = [connections |-> {}, streamSessions |-> <<>>]
  /\ generated = [streams |-> 0, connections |-> 0]
  /\ started = <<>>
  /\ resumed = [kind |-> "none", streamId |-> "", bit |-> 0]

NextPolling ==
  \/ \E stream \in ServiceDescriptions : AddVideoStream(stream, MaxPollPush)
  \/ \E s \in Streams : AddFrameToBuffer(s, MaxPollPush)
  \/ \E s \in Streams : HandleDisconnection(s)
  \/ Stop
  \/ Start
  \/ Wakeup
  \/ \E p \in BagToSet(passes) : BatchDone(p, TRUE)
  \/ \E p \in BagToSet(passes) : PauseDone(p, FALSE)

SpecPolling == InitPolling /\ [][NextPolling]_vars

\* ---------------------------------------------------------------- a StreamBuffer on its own
InitBuffer ==
  /\ maxBufferSize \in BufferSizes
  /\ buffers = EmptyMap
  /\ pushed = [s \in Streams |-> 0]
  /\ lastReturned = [s \in Streams |-> 0]
  /\ events = <<>>
  /\ ret = NoTrace
  /\ routerQueue = <<>>
  /\ activeRoutes = {}
  /\ processingQueue = <<>>
  /\ activeProcessing = {}
  /\ maxConcurrentStreams = 1
  /\ processingMetrics = {}
  /\ isProcessing = FALSE
  /\ passes = EmptyBag
  /\ wakeups = 0
  /\ maxWakeups = MaxWakeups
  /\ retryTimers = EmptyBag
  /\ detachedJobs = {}
  /\ lastEnhanced = [s \in Streams |-> 0]
  /\ activeStreams = EmptyMap
  /\ userSessions = EmptyMap
  /\ description = <<>>
  /\ handed = [s \in Streams |-> <<>>]
  /\ webrtcServer = [connections |-> {}, streamSessions |-> <<>>]
  /\ generated = [streams |-> 0, connections |-> 0]
  /\ started = <<>>
  /\ resumed = [kind |-> "none", streamId |-> "", bit |-> 0]

BufAddFrame(s) ==
  /\ pushed[s] < MaxPush
  /\ CommitAll(Returned("addFrame", s, addFrame(St, s)))

BufGetNextFrame(s) == CommitAll(Returned("getNextFrame", s, getNextFrame(St, s)))

BufGetFrames(s, count) == CommitAll(Returned("getFrames", s, getFrames(St, s, count)))

BufClearBuffer(s) == CommitAll(Returned("clearBuffer", s, clearBuffer(St, s)))

BufRemoveStream(s) == CommitAll(Returned("removeStream", s, removeStream(St, s)))

NextBuffer ==
  \E s \in Streams :
    \/ BufAddFrame(s)
    \/ BufGetNextFrame(s)
    \/ \E count \in 1..MaxCount : BufGetFrames(s, count)
    \/ BufClearBuffer(s)
    \/ BufRemoveStream(s)

SpecBuffer == InitBuffer /\ [][NextBuffer]_vars

\* ---------------------------------------------------------------- a StreamBuffer and its queries
QryAddFrame(s) ==
  /\ pushed[s] < MaxQueryPush
  /\ CommitAll(Returned("addFrame", s, addFrame(St, s)))

QryGetBufferSize(s) ==
  CommitAll(Returned("getBufferSize", s, [St EXCEPT !.ret = getBufferSize(St, s)]))

QryIsEmpty(s) ==
  CommitAll(Returned("isEmpty", s, [St EXCEPT !.ret = isEmpty(St, s)]))

QryIsFull(s) ==
  CommitAll(Returned("isFull", s, [St EXCEPT !.ret = isFull(St, s)]))

NextQuery ==
  \E s \in Streams :
    \/ QryAddFrame(s)
    \/ BufGetNextFrame(s)
    \/ BufRemoveStream(s)
    \/ QryGetBufferSize(s)
    \/ QryIsEmpty(s)
    \/ QryIsFull(s)

SpecQuery == InitBuffer /\ [][NextQuery]_vars

\* ================================================================ properties
Last(q) == q[Len(q)]

Increasing(q) == \A i \in 1..(Len(q) - 1) : q[i] < q[i + 1]

HasEvent(type, s) == \E i \in 1..Len(events) : events[i].type = type /\ events[i].streamId = s

\* C1 -- buffer capacity: whatever pushes, pops, drains, clears and removals
\* were made, no stream holds more than maxBufferSize frames.
C1_BufferCapacity ==
  \A s \in DOMAIN buffers : Len(buffers[s]) <= maxBufferSize

\* a push has just found the buffer of s full and evicted from it
C1_Witness ==
  \E s \in DOMAIN buffers :
    /\ ret.op = "addFrame" /\ ret.streamId = s
    /\ HasEvent("buffer:overflow", s)
    /\ maxBufferSize >= 4
    /\ Len(buffers[s]) = maxBufferSize - 1

\* C2 -- a push to a full stream evicts floor(0.3 * capacity) frames, signals
\* them, and then appends: it reports the frame admitted, the frame is the
\* newest of the buffer, and the size is capacity - evicted + 1.
C2_OverflowPushAppends ==
  \A i \in 1..Len(events) :
    events[i].type = "buffer:overflow" =>
      LET s == events[i].streamId
      IN  /\ events[i].n = (3 * maxBufferSize) \div 10
          /\ ret.op = "addFrame" /\ ret.value = TRUE
          /\ Len(buffers[s]) = maxBufferSize - events[i].n + 1
          /\ Last(buffers[s]) = pushed[s]

\* C9 -- FIFO order: the frames a pop or a drain returns are in push order
\* and all of them were pushed after every frame returned before.
C9_FifoOrder ==
  [][ \A s \in Streams :
        (ret'.op \in {"getNextFrame", "getFrames"} /\ ret'.streamId = s
           /\ Len(ret'.value) > 0)
        => /\ Increasing(ret'.value)
           /\ ret'.value[1] > lastReturned[s]
           /\ lastReturned'[s] = Last(ret'.value) ]_vars

\* a drain has returned frames 2 and 3 of a stream of capacity 4 that lost
\* frame 1 to an eviction and frame 5 to the overflowing push
C9_Witness ==
  \E s \in DOMAIN buffers :
    /\ maxBufferSize = 4 /\ pushed[s] = 5
    /\ ret.op = "getFrames" /\ ret.streamId = s /\ ret.value = <<2, 3>>
    /\ buffers[s] = <<4>>

\* ---------------------------------------------------------------- the coordinator
PassCount(s) ==
  SumOver([p \in BagToSet(passes) |-> IF p.streamId = s THEN CopiesIn(p, passes) ELSE 0],
          BagToSet(passes))

\* C3 -- concurrency ceiling: the active-processing set never holds more than
\* maxConcurrentStreams streams.
C3_ConcurrencyCeiling ==
  Cardinality(activeProcessing) <= maxConcurrentStreams

\* the ceiling is reached while another stream is queued with frames and a
\* wake-up of the scheduler is pending
C3_Witness ==
  /\ isProcessing /\ wakeups > 0
  /\ Cardinality(activeProcessing) = maxConcurrentStreams
  /\ \E i \in 1..Len(processingQueue) :
       /\ processingQueue[i].streamId \notin activeProcessing
       /\ ~isEmpty(St, processingQueue[i].streamId)

\* C4 -- single active pass: no stream is at once in the active-processing
\* set and in the job queue.
C4_ActiveNotQueued ==
  \A s \in Streams : ~(s \in activeProcessing /\ HasKey(processingQueue, s))

\* C5 -- no two passes of one stream are in flight at the same time.
C5_OnePassPerStream ==
  \A s \in Streams : PassCount(s) <= 1

\* C6 -- retry exhaustion: a pass in which the enhancement failed ends in a
\* retry (retryCount 1, 2 or 3, re-admission after 2^retryCount seconds) or,
\* the three retries used up, in a terminal failure carrying retryCount 3.
C6_RetryExhaustion ==
  [][ \A p \in BagToSet(passes), threw \in BOOLEAN :
        (p.pc = "pause" /\ p.errors > 0 /\ PassEnds(p) /\ PauseDone(p, threw))
        => LET ev == pauseDone(St, p, threw).events
           IN  \E i \in 1..Len(ev) :
                 \/ /\ ev[i].type = "processing:retry"
                    /\ ev[i].n \in 1..MaxRetries
                    /\ \E t \in BagToSet(retryTimers') :
                         t.streamId = p.streamId /\ t.delay = (2 ^ ev[i].n) * 1000
                 \/ /\ ev[i].type = "processing:failed"
                    /\ ev[i].n = MaxRetries ]_vars

\* the state of stream s after a complete teardown
TornDown(st, s) ==
  /\ s \notin DOMAIN st.activeStreams
  /\ \A u \in DOMAIN st.userSessions : st.userSessions[u] # s
  /\ s \notin DOMAIN st.buffers
  /\ s \notin st.activeRoutes /\ ~HasKey(st.routerQueue, s)
  /\ ~HasKey(st.processingQueue, s)
  /\ s \notin st.activeProcessing

\* C7 -- idempotent teardown: from any state, handleDisconnection(s) called
\* twice raises nothing and leaves the state that one call leaves, with s
\* gone from the registry, the buffer, the router and the queue; removing
\* the buffer or the route of a stream that has none changes nothing.
C7_IdempotentTeardown ==
  \A s \in Streams :
    LET once == handleDisconnection(St, s)
        twice == handleDisconnection(once, s)
    IN  /\ once.ret = "void" /\ twice.ret = "void"
        /\ Core(twice) = Core(once)
        /\ TornDown(once, s)
        /\ Core(removeStream(once, s)) = Core(once)
        /\ removeRoute(once, s).routerQueue = once.routerQueue
        /\ removeRoute(once, s).activeRoutes = once.activeRoutes

\* s1 is registered, buffered, admitted, queued and active in a pass: a
\* teardown of s1 has all of it to remove
C7_Witness ==
  /\ "s1" \in activeRoutes
  /\ "s1" \in DOMAIN activeStreams /\ "u1" \in DOMAIN userSessions
  /\ "s1" \in DOMAIN buffers /\ Len(buffers["s1"]) > 0
  /\ HasKey(processingQueue, "s1") /\ "s1" \in activeProcessing

\* C8 -- complete teardown: whatever state stream s is in, when
\* handleDisconnection(s) returns s is in no user session, has no buffer, no
\* admission, no job, and is not in the active-processing set.
C8_TeardownComplete ==
  \A s \in Streams : TornDown(handleDisconnection(St, s), s)

\* s1 was disconnected while a pass of it was in flight and a retry of it
\* was pending: both outlive the teardown, which left no other trace of s1
C8_Witness ==
  /\ TornDown(St, "s1")
  /\ PassCount("s1") >= 1
  /\ \E t \in BagToSet(retryTimers) : t.streamId = "s1"
  /\ pushed["s1"] > 0

\* C10 -- frames of one stream are enhanced in FIFO order: each
\* frames:enhanced carries frames in push order, all pushed after the frames
\* of the frames:enhanced before it.
C10_EnhancedInOrder ==
  [][ \A p \in BagToSet(passes) :
        (p.pc = "enhance" /\ BatchDone(p, TRUE))
        => /\ Increasing(p.batch)
           /\ p.batch[1] > lastEnhanced[p.streamId] ]_vars

\* ---------------------------------------------------------------- admission and registration
\* what the spec asks of a description, in the spec's terms
SpecValid(d) ==
  /\ d.streamId # "" /\ d.userId # "" /\ d.config.present
  /\ d.config.hasResolution /\ d.config.width > 0 /\ d.config.height > 0
  /\ d.config.frameRate > 0 /\ d.config.frameRate <= 120
  /\ d.config.bitrate > 0

\* the spec's admission rules, by position
SpecRulePasses(i, d) ==
  CASE i = 1 -> d.streamId # "" /\ d.userId # "" /\ d.config.present
    [] i = 2 -> d.frames >= 1
    [] i = 3 -> /\ d.config.present /\ d.config.hasResolution
                /\ d.config.width >= 320 /\ d.config.width <= 3840
                /\ d.config.height >= 240 /\ d.config.height <= 2160

SpecFirstFailing(d) ==
  IF \A i \in 1..3 : SpecRulePasses(i, d) THEN 0
  ELSE CHOOSE i \in 1..3 : ~SpecRulePasses(i, d) /\ \A j \in 1..(i - 1) : SpecRulePasses(j, d)

Contains(msg, part) == \E i \in 1..Len(msg) : msg[i] = part

\* C11 -- admission gates scheduling: a stream has a job in the coordinator's
\* queue, is in the active-processing set or has a pass in flight only if the
\* router has admitted it.
C11_AdmissionGatesScheduling ==
  \A s \in Streams :
    (HasKey(processingQueue, s) \/ s \in activeProcessing \/ PassCount(s) > 0)
    => s \in activeRoutes

\* C12 -- one live stream per user: no two registered streams have the same
\* userId, and an addVideoStream of a valid description for a user whose
\* session holds another stream leaves that stream without registry entry,
\* buffer, admission and job, registers the new stream and points the user's
\* session at it.
C12_OneStreamPerUser ==
  [][ /\ \A a, b \in DOMAIN activeStreams' :
           a # b => activeStreams'[a].userId # activeStreams'[b].userId
      /\ ( /\ ret'.op = "addVideoStream"
            /\ SpecValid(description'[1])
            /\ description'[1].userId \in DOMAIN userSessions
            /\ userSessions[description'[1].userId] # description'[1].streamId )
           => LET d == description'[1]
                  old == userSessions[d.userId]
              IN  /\ ~ret'.value.threw
                  /\ old \notin DOMAIN activeStreams'
                  /\ old \notin DOMAIN buffers'
                  /\ old \notin activeRoutes' /\ ~HasKey(routerQueue', old)
                  /\ ~HasKey(processingQueue', old)
                  /\ d.streamId \in DOMAIN activeStreams'
                  /\ activeStreams'[d.streamId] = d
                  /\ userSessions'[d.userId] = d.streamId ]_vars

\* u1's stream s1, which had frames, an admission and a pass, was superseded
\* by s2: addVideoStream(s2 of u1) has just returned
C12_Witness ==
  /\ ret.op = "addVideoStream" /\ ret.streamId = "s2" /\ ~ret.value.threw
  /\ "u1" \in DOMAIN userSessions /\ userSessions["u1"] = "s2"
  /\ DOMAIN activeStreams = {"s2"}
  /\ pushed["s1"] > 0 /\ PassCount("s1") > 0
  /\ HasEvent("route:removed", "s1") /\ HasEvent("buffer:removed", "s1")

\* C13 -- rejection before registration: addVideoStream of a description that
\* fails validation raises an error that lists the validation errors and
\* changes nothing: registry, user sessions, buffers, router, job queue.
C13_InvalidRejected ==
  [][ (ret'.op = "addVideoStream" /\ ~SpecValid(description'[1]))
        => LET d == description'[1] IN
           /\ ret'.value.threw
           /\ Len(ret'.value.error) > 1
           /\ ret'.value.error[1] = "Invalid stream"
           /\ d.config.present /\ (~d.config.hasResolution \/ d.config.width <= 0)
                => Contains(ret'.value.error, "Valid resolution is required")
           /\ ~d.config.present
                => Contains(ret'.value.error, "Stream configuration is required")
           /\ UNCHANGED <<activeStreams, userSessions, buffers, routerQueue, activeRoutes,
                          processingQueue, activeProcessing, passes>> ]_vars

\* C18 -- routeToProcessor: on a registered stream that fails an admission
\* rule it raises an error that names the failed rule, and admits and queues
\* nothing; on an unknown stream it raises and changes nothing; on success
\* the stream is admitted with priority 1 and is queued or active.
C18_RouteToProcessor ==
  [][ \A s \in Streams :
        (ret'.op = "routeToProcessor" /\ ret'.streamId = s)
        => IF s \notin DOMAIN activeStreams
           THEN /\ ret'.value.threw
                /\ UNCHANGED <<activeStreams, userSessions, buffers, routerQueue,
                               activeRoutes, processingQueue, activeProcessing, passes>>
           ELSE LET failed == SpecFirstFailing(activeStreams[s])
                IN  IF failed # 0
                    THEN /\ ret'.value.threw
                         /\ Contains(ret'.value.error, RuleNames[failed])
                         /\ UNCHANGED <<routerQueue, activeRoutes, processingQueue>>
                    ELSE /\ ~ret'.value.threw
                         /\ s \in activeRoutes'
                         /\ routerQueue'[KeyIndex(routerQueue', s)].priority = 1
                         /\ HasKey(processingQueue', s) \/ s \in activeProcessing' ]_vars

\* ---------------------------------------------------------------- priorities
\* the priorities of the spec's examples
AdmitPriorities == {1, 5}

C15_AdmitNeverLowers ==
  [][\A s \in Streams :
       (ret'.op = "routeToAI" /\ ret'.streamId = s /\ HasKey(routerQueue, s))
       => /\ HasKey(routerQueue', s)
          /\ routerQueue'[KeyIndex(routerQueue', s)].priority
               >= routerQueue[KeyIndex(routerQueue, s)].priority]_vars

\* C16 -- getNextStreamForProcessing returns null exactly when the router
\* holds no stream; otherwise it returns a stream the router holds whose
\* priority no other reaches before it in admission order and none exceeds;
\* the call changes nothing the router holds.
C16_NextCandidate ==
  [][ret'.op = "getNextStreamForProcessing"
     => /\ (ret'.value = "") <=> (Len(routerQueue) = 0)
        /\ (ret'.value = "") <=> (activeRoutes = {})
        /\ Len(routerQueue) > 0
           => \E i \in 1..Len(routerQueue) :
                /\ routerQueue[i].streamId = ret'.value
                /\ ret'.value \in activeRoutes
                /\ \A j \in 1..Len(routerQueue) :
                     /\ routerQueue[j].priority <= routerQueue[i].priority
                     /\ j < i => routerQueue[j].priority < routerQueue[i].priority
        /\ UNCHANGED <<routerQueue, activeRoutes>>]_vars

\* getNextStreamForProcessing has returned the first admitted of two streams
\* that share the highest priority
C16_Witness ==
  /\ ret.op = "getNextStreamForProcessing"
  /\ Len(routerQueue) = 2
  /\ routerQueue[1].priority = routerQueue[2].priority
  /\ routerQueue[1].streamId = "s2"
  /\ ret.value = "s2"

\* ---------------------------------------------------------------- functions of a description
\* a description that has every property its type requires
FullyFormed(d) == d.config.present /\ d.config.hasResolution

\* C17 -- shouldRoute runs valid_stream, has_frames and supported_resolution
\* in that order: it returns true exactly when all three pass and then
\* emits nothing; otherwise it returns false and emits exactly one
\* notification, which names the first rule that does not pass (rule:failed
\* for a fully formed description).
C17_EvaluateInOrder ==
  ret.op = "shouldRoute"
  => LET d == description[1]
         failed == SpecFirstFailing(d)
     IN  /\ (ret.value = TRUE) <=> (\A i \in 1..3 : SpecRulePasses(i, d))
         /\ failed = 0 => events = <<>>
         /\ failed # 0
            => /\ ret.value = FALSE
               /\ Len(events) = 1
               /\ events[1].type \in {"rule:failed", "rule:error"}
               /\ FullyFormed(d) => events[1].type = "rule:failed"
               /\ events[1].streamId = d.streamId
               /\ RuleNames[events[1].n] = <<"valid_stream", "has_frames",
                                             "supported_resolution">>[failed]

\* shouldRoute has refused a description that fails has_frames and
\* supported_resolution but not valid_stream, and named has_frames
C17_Witness ==
  /\ ret.op = "shouldRoute"
  /\ ret.value = FALSE
  /\ description[1].streamId = "s1" /\ description[1].userId = "u1"
  /\ description[1].frames = 0
  /\ description[1].config.hasResolution /\ description[1].config.width = 319
  /\ Len(events) = 1
  /\ events[1].type = "rule:failed" /\ RuleNames[events[1].n] = "has_frames"

\* C19 -- validateStream returns a result whose isValid is true exactly
\* when streamId, userId and config are present, width > 0, height > 0,
\* 0 < frameRate <= 120 and bitrate > 0; isValid is false exactly when errors
\* is not empty; a description without frames and one above 1920x1080 each
\* get a warning, which leaves isValid as it is.
C19_Validate ==
  ret.op = "validateStream"
  => LET d == description[1]
         result == ret.value
     IN  /\ ~result.threw
         /\ result.isValid <=> SpecValid(d)
         /\ result.isValid <=> (Len(result.errors) = 0)
         /\ d.frames = 0
            <=> Contains(result.warnings, "No video frames present in stream")
         /\ (FullyFormed(d) /\ (d.config.width > 1920 \/ d.config.height > 1080))
            <=> Contains(result.warnings,
                         "High resolution may impact processing performance")

\* ---------------------------------------------------------------- high-water signal
\* the number of events of the last operation that have this type and stream
EventCount(type, s) ==
  Cardinality({i \in 1..Len(events) : events[i].type = type /\ events[i].streamId = s})

\* C20 -- the high-water signal is edge-triggered: the last operation emitted
\* buffer:high_water for a stream exactly when it was an addFrame on that
\* stream that inserted its frame and left the buffer at a length of
\* floor(0.8 * maxBufferSize), and then it emitted it once; an addFrame that
\* leaves another length or inserts nothing, getNextFrame, getFrames,
\* clearBuffer and removeStream emit none.
C20_HighWaterEdge ==
  \A s \in Streams :
    /\ EventCount("buffer:high_water", s) <= 1
    /\ EventCount("buffer:high_water", s) = 1
       <=> /\ ret.op = "addFrame" /\ ret.streamId = s /\ ret.value = TRUE
           /\ Len(buffers[s]) = (8 * maxBufferSize) \div 10

\* a push into a buffer of capacity 4 that had been above the mark and was
\* drained below it brings the length back to 3 and signals again
C20_Witness ==
  /\ maxBufferSize = 4
  /\ ret.op = "addFrame" /\ ret.streamId = "s1" /\ ret.value = TRUE
  /\ pushed["s1"] = 5
  /\ Len(buffers["s1"]) = 3
  /\ EventCount("buffer:high_water", "s1") = 1

\* ---------------------------------------------------------------- low-water signal
\* C21 -- getNextFrame on a stream whose buffer holds frames removes and
\* returns the oldest one and emits buffer:low_water, once, exactly when the
\* length it leaves is floor(0.3 * maxBufferSize); on a stream without
\* buffer or with an empty one it returns null, emits nothing and leaves the
\* buffers as they are.
C21_LowWaterEdge ==
  [][\A s \in Streams :
       (ret'.op = "getNextFrame" /\ ret'.streamId = s)
       => IF s \in DOMAIN buffers /\ Len(buffers[s]) > 0
          THEN /\ ret'.value = <<Head(buffers[s])>>
               /\ buffers' = [buffers EXCEPT ![s] = Tail(@)]
               /\ EventCount("buffer:low_water", s)' <= 1
               /\ EventCount("buffer:low_water", s)' = 1
                  <=> Len(buffers'[s]) = (3 * maxBufferSize) \div 10
          ELSE /\ ret'.value = <<>>
               /\ events' = <<>>
               /\ buffers' = buffers]_vars

\* a getNextFrame has taken the oldest of two frames from a buffer of
\* capacity 4 and signalled low water at the one frame left
C21_Witness ==
  /\ maxBufferSize = 4
  /\ ret.op = "getNextFrame" /\ ret.streamId = "s1" /\ ret.value = <<1>>
  /\ buffers["s1"] = <<2>>
  /\ EventCount("buffer:low_water", "s1") = 1

\* ---------------------------------------------------------------- queries
Queries == {"getBufferSize", "isEmpty", "isFull"}

\* C22 -- getBufferSize, isEmpty and isFull are pure: each leaves the
\* buffers (entries and contents) and the capacity as they are and emits
\* nothing; for a stream without buffer they return 0, true and false, for
\* a stream with one its length, whether that is 0, and whether it has
\* reached the capacity.
C22_PureQueries ==
  [][\A s \in Streams :
       (ret'.op \in Queries /\ ret'.streamId = s)
       => LET size == IF s \in DOMAIN buffers THEN Len(buffers[s]) ELSE 0
          IN  /\ buffers' = buffers
              /\ maxBufferSize' = maxBufferSize
              /\ events' = <<>>
              /\ ret'.op = "getBufferSize" => ret'.value = size
              /\ ret'.op = "isEmpty" => ret'.value = (size = 0)
              /\ ret'.op = "isFull" => ret'.value = (size >= maxBufferSize)
              /\ s \notin DOMAIN buffers
                 => \/ ret'.op = "getBufferSize" /\ ret'.value = 0
                    \/ ret'.op = "isEmpty" /\ ret'.value = TRUE
                    \/ ret'.op = "isFull" /\ ret'.value = FALSE]_vars

\* isFull has answered false for a stream that has no buffer, next to a
\* stream whose buffer is full, and the stream still has no buffer
C22_Witness ==
  /\ ret.op = "isFull" /\ ret.streamId = "s2" /\ ret.value = FALSE
  /\ "s2" \notin DOMAIN buffers
  /\ "s1" \in DOMAIN buffers
  /\ Len(buffers["s1"]) = maxBufferSize

\* ---------------------------------------------------------------- frames added are buffered
\* C23 -- every frame added is still buffered: getBufferedFrameCount of a
\* registered stream, which was added with one frame and given further
\* frames one by one, fewer than the capacity in all, returns the number of
\* frames added.
C23_AllFramesBuffered ==
  (ret.op = "getBufferedFrameCount" /\ ret.streamId \in DOMAIN activeStreams)
  => ret.value = pushed[ret.streamId]

\* ---------------------------------------------------------------- frames are processed once
\* C24 -- no frame is processed twice: the frames given to processBatch for
\* a stream are frames pushed for it, each given once, so that there are
\* never more of them than frames pushed, and every batch reported with
\* frames:enhanced is made of them.
C24_NoDuplicateFrames ==
  \A s \in Streams :
    /\ \A i, j \in 1..Len(handed[s]) : i # j => handed[s][i] # handed[s][j]
    /\ \A i \in 1..Len(handed[s]) : handed[s][i] \in 1..pushed[s]
    /\ Len(handed[s]) <= pushed[s]
    /\ \A p \in BagToSet(passes) :
         (p.streamId = s /\ p.pc = "enhance")
         => /\ CopiesIn(p, passes) = 1
            /\ \A k \in 1..Len(p.batch) :
                 \E i \in 1..Len(handed[s]) : handed[s][i] = p.batch[k]

\* two passes of s1 are in flight at once, after a teardown in mid-pass, and
\* both frames pushed for s1 have been given to processBatch
C24_Witness ==
  /\ PassCount("s1") = 2
  /\ pushed["s1"] = 2
  /\ Len(handed["s1"]) = 2

\* ---------------------------------------------------------------- the count of active streams
\* the registered streams of user u
StreamsOf(u) == {s \in DOMAIN activeStreams : activeStreams[s].userId = u}

StreamsOfConnection(c) ==
  {webrtcServer.streamSessions[i].streamId :
     i \in {j \in 1..Len(webrtcServer.streamSessions) :
              webrtcServer.streamSessions[j].connectionId = c}}

\* C26 -- closing a connection tears down its streams: after closeConnection
\* of an open connection c, every stream that acceptStream had associated
\* with c is torn down in the service and streamSessions holds no entry for
\* c; if no stream was associated with c, no teardown is made.
C26_CloseTearsDown ==
  [][\A c \in Connections :
       (ret'.op = "closeConnection" /\ ret'.streamId = c /\ c \in webrtcServer.connections)
       => /\ c \notin webrtcServer'.connections
          /\ \A s \in StreamsOfConnection(c) : TornDown(St', s)
          /\ StreamsOfConnection(c)' = {}
          /\ StreamsOfConnection(c) = {}
             => \A i \in 1..Len(events') : events'[i].type # "stream:disconnected"]_vars

\* ---------------------------------------------------------------- isolation of streams
\* the operations made on one stream: push (with overflow), pop, drain,
\* removal, the end of a batch and the continuation or end of a pass
StreamOps == {"addVideoStream", "addFrameToBuffer", "getNextFrame",
              "handleDisconnection", "processBatch", "processStream"}

\* buffer and job of stream b are in the next state what they are now
SameBuffer(b) ==
  /\ (b \in DOMAIN buffers') <=> (b \in DOMAIN buffers)
  /\ b \in DOMAIN buffers => buffers'[b] = buffers[b]

SameJob(b) ==
  /\ HasKey(processingQueue', b) <=> HasKey(processingQueue, b)
  /\ HasKey(processingQueue, b)
     => LET old == processingQueue[KeyIndex(processingQueue, b)]
            new == processingQueue'[KeyIndex(processingQueue', b)]
        IN  new.priority = old.priority /\ new.retryCount = old.retryCount

\* C27 -- isolation: an operation on stream a leaves the buffer contents and
\* the queued job (presence, priority, retryCount) of every other stream b
\* as they were.
C27_Isolation ==
  [][\A a \in Streams, b \in Streams :
       (ret'.op \in StreamOps /\ ret'.streamId = a /\ b # a)
       => SameBuffer(b) /\ SameJob(b)]_vars

\* the scheduler, run by the step, started the pass of stream b: its job left
\* the queue and the pass took its first batch from the front of the buffer
StartedPass(b) ==
  /\ \E i \in 1..Len(events') :
        events'[i].type = "processing:started" /\ events'[i].streamId = b
  /\ HasKey(processingQueue, b) /\ ~HasKey(processingQueue', b)
  /\ b \in activeProcessing'
  /\ b \in DOMAIN buffers /\ b \in DOMAIN buffers'
  /\ buffers'[b] = SubSeq(buffers[b], Min(batchSize, Len(buffers[b])) + 1, Len(buffers[b]))

\* C27 as the code has it: an operation on stream a leaves the buffer and the
\* queued job of every other stream b as they were, except that a push on a,
\* which runs the scheduler, may start the pass of a queued stream b.
C27_IsolationButScheduler ==
  [][\A a \in Streams, b \in Streams :
       (ret'.op \in StreamOps /\ ret'.streamId = a /\ b # a)
       => \/ SameBuffer(b) /\ SameJob(b)
          \/ ret'.op \in {"addVideoStream", "addFrameToBuffer"} /\ StartedPass(b)]_vars

\* a push on s1 has started the pass of s2
C27_Witness ==
  /\ ret.op = "addFrameToBuffer" /\ ret.streamId = "s1"
  /\ HasEvent("processing:started", "s2")

\* ---------------------------------------------------------------- passes in flight
\* C28 -- at most maxConcurrentStreams passes are in flight (started and not
\* ended), also after a stream was removed from the coordinator or the
\* coordinator was stopped and started while passes were suspended.
C28_PassesInFlight ==
  BagCardinality(passes) <= maxConcurrentStreams

\* ---------------------------------------------------------------- the end of a pass
\* C29 -- the failed state is terminal: when the coordinator has emitted
\* processing:failed for a stream, no job of the stream is queued, and a
\* frame pushed for the stream next neither queues a job nor starts a pass.
C29_FailedIsTerminal ==
  [][\A s \in Streams :
       HasEvent("processing:failed", s)
       => /\ ~HasKey(processingQueue, s)
          /\ (ret'.op = "addFrameToBuffer" /\ ret'.streamId = s)
             => /\ ~HasKey(processingQueue', s)
                /\ PassCount(s)' = PassCount(s)]_vars

\* C30 -- every pass ends in exactly one of completed, retrying and failed:
\* the step that ends a pass of a stream emits exactly one of
\* processing:completed, processing:retry and processing:failed for it, and
\* processing:completed, with the metrics stored, only for a pass without a
\* failed batch.
C30_OneOutcome ==
  [][\A s \in Streams, p \in BagToSet(passes) :
       (/\ ret'.op = "processStream" /\ ret'.streamId = s /\ p.streamId = s
        /\ CopiesIn(p, passes') < CopiesIn(p, passes)
        /\ PassCount(s)' < PassCount(s))
       => /\ EventCount("processing:completed", s)' + EventCount("processing:retry", s)'
               + EventCount("processing:failed", s)' = 1
          /\ EventCount("processing:completed", s)' = 1
             => p.errors = 0 /\ s \in processingMetrics']_vars

\* ---------------------------------------------------------------- the selection of the next pass
\* the jobs that processNextBatch could select at pass start e: not active, buffer not empty
Eligible(e) ==
  {i \in 1..Len(e.queue) : /\ e.queue[i].streamId \notin e.active
                            /\ e.queue[i].streamId \in e.nonEmpty}

\* C31 -- whenever the coordinator starts a pass for stream s, s had a queued
\* job, was not active and had a non-empty buffer; no eligible job had a
\* strictly higher priority; among the eligible jobs of that priority the job
\* of s came first in the queue; and the start removed the job of s and no other.
C31_SelectsHighestFirst ==
  \A k \in 1..Len(started) :
    LET e == started[k]
        i == KeyIndex(e.queue, e.streamId)
    IN  /\ i \in Eligible(e)
        /\ \A j \in Eligible(e) :
              /\ e.queue[j].priority <= e.queue[i].priority
              /\ e.queue[j].priority = e.queue[i].priority => i <= j
        /\ e.left = SeqDelete(e.queue, e.streamId)

\* a pass was started for the second of two eligible jobs, which had the
\* higher priority
C31_Witness ==
  \E k \in 1..Len(started) :
    LET e == started[k]
        i == KeyIndex(e.queue, e.streamId)
    IN  /\ i = 2
        /\ Eligible(e) = {1, 2}
        /\ e.queue[1].priority < e.queue[2].priority

\* ---------------------------------------------------------------- progress of the scheduler
\* stream s waits for a pass: the coordinator runs, s has a queued job and
\* buffered frames, and is not active
Waiting(s) ==
  /\ isProcessing
  /\ HasKey(processingQueue, s)
  /\ ~isEmpty(St, s)
  /\ s \notin activeProcessing

Escalated(p) == IF p < MaxPriority THEN p + 1 ELSE p

Overflowed(s) ==
  /\ ret'.op = "addFrameToBuffer"
  /\ ret'.streamId = s
  /\ EventCount("buffer:overflow", s)' > 0

OtherJobsUnchanged(s) ==
  \A t \in Streams \ {s} :
    /\ HasKey(processingQueue', t) <=> HasKey(processingQueue, t)
    /\ HasKey(processingQueue, t)
       => processingQueue'[KeyIndex(processingQueue', t)]
            = processingQueue[KeyIndex(processingQueue, t)]

\* C33 -- when the buffer signals overflow for a stream with a queued job of
\* priority p, the priority becomes p + 1 if p < 10, is never raised above 10
\* and is never lowered; the jobs of other streams are unchanged, and an
\* overflow for a stream without a queued job changes no job.
C33_Escalation ==
  [][\A s \in Streams :
       Overflowed(s)
       => /\ OtherJobsUnchanged(s)
          /\ IF HasKey(processingQueue, s)
             THEN /\ HasKey(processingQueue', s)
                  /\ processingQueue'[KeyIndex(processingQueue', s)].priority
                       = Escalated(processingQueue[KeyIndex(processingQueue, s)].priority)
             ELSE processingQueue' = processingQueue]_vars

\* ---------------------------------------------------------------- passes of a removed stream
\* the batch that the step handed to processBatch for stream s
HandedNow(s) == SubSeq(handed'[s], Len(handed[s]) + 1, Len(handed'[s]))

\* C34 -- a pass in flight abandons a removed stream: a pass that was in
\* flight when handleDisconnection was called for its stream hands no batch
\* of that stream to processBatch afterwards, also when the stream was added
\* again with new frames before the pass reached its next batch.
C34_AbandonsRemoved ==
  [][\A s \in Streams :
       Len(handed'[s]) > Len(handed[s])
       => \A q \in BagToSet(passes') :
            (q.streamId = s /\ q.pc = "enhance" /\ q.batch = HandedNow(s))
            => ~q.removed]_vars

\* ---------------------------------------------------------------- state of registered streams only
\* C35 -- only registered streams hold pipeline state: every stream that has
\* a buffer entry, a queued job or a place in the active set is in the
\* registry of the service; so a frame pushed for a stream that was never
\* added, or that was disconnected, creates no buffer entry and no job.
C35_OnlyRegistered ==
  \A s \in Streams :
    (s \in DOMAIN buffers \/ HasKey(processingQueue, s) \/ s \in activeProcessing)
    => s \in DOMAIN activeStreams

\* ---------------------------------------------------------------- teardown is final
\* handleDisconnection(s) was called and no call has named s since, or no call
\* ever named s: addVideoStream leaves s in the registry and addFrameToBuffer
\* leaves a buffer entry of s, until the next handleDisconnection(s);
\* routeToProcessor raises for a stream that is not registered.
NotNamedSinceTeardown(s) == s \notin DOMAIN activeStreams /\ s \notin DOMAIN buffers

\* C36 -- teardown is final: once handleDisconnection(s) was called and as
\* long as no later call names s, the coordinator holds no job of s, s is not
\* in the active set and there are no processing metrics of s, also when a
\* pass of s was in flight or a retry timer of s was pending at the teardown.
C36_TeardownFinal ==
  \A s \in Streams :
    NotNamedSinceTeardown(s)
    => /\ ~HasKey(processingQueue, s)
       /\ s \notin activeProcessing
       /\ s \notin processingMetrics

\* ---------------------------------------------------------------- pending callbacks
\* C37 -- the number of pending processNextBatch callbacks (10ms poll timers
\* and setImmediate re-invocations) stays bounded by a constant that does not
\* depend on the jobs enqueued or the passes completed: here one polling loop
\* and one re-invocation for each pass that the ceiling allows.
C37_BoundedWakeups == wakeups <= maxConcurrentStreams + 1

\* ---------------------------------------------------------------- overflow frees a slot
\* C38 -- for every capacity from 1 on, a push that finds the buffer of its
\* stream at capacity frees at least one slot: when the push has signalled
\* buffer:overflow the buffer is below capacity, so that the next push is
\* buffered and a producer without consumer is never refused for good.
C38_OverflowFreesSlot ==
  \A i \in 1..Len(events) :
    events[i].type = "buffer:overflow"
    => Len(buffers[events[i].streamId]) < maxBufferSize

\* ---------------------------------------------------------------- validateStream does not raise
\* C39 -- validateStream never raises: for every description it returns a
\* result with a boolean isValid, errors and warnings, also for a description
\* whose config has no resolution, for which the result is invalid and its
\* errors name the resolution.
C39_ValidateReturns ==
  ret.op = "validateStream"
  => LET d == description[1]
         result == ret.value
     IN  /\ ~result.threw
         /\ result.isValid \in BOOLEAN
         /\ (d.config.present /\ ~d.config.hasResolution)
            => /\ ~result.isValid
               /\ Contains(result.errors, "Valid resolution is required")

====
